---- MODULE Spec2Model ----
(***************************************************************************)
(* A model of the UNO game engine (uno/engine/engine.py), the match runner *)
(* and the tournament orchestrator (uno/engine/tournament.py).             *)
(*                                                                         *)
(* Cards are values (colour and label); the deck and the hands are         *)
(* multisets of card values, kept as count vectors over Cards, and the     *)
(* discard pile is a sequence whose last element is the top card.  The     *)
(* deck is shuffled whenever cards are put into it and its order is never  *)
(* observed before a draw, so a draw takes any card the deck holds.        *)
(***************************************************************************)
EXTENDS Integers, Sequences, FiniteSets, TLC

\* ------------------------------------------------------------- bounds

\* Seats for which games are explored (the engine admits up to 10).
MaxSeats == 2
\* Cards dealt to each player (the engine deals 7 from the 108-card deck).
CardsPerPlayer == 2
\* The engine's turn ceiling max_turns (1000 in the engine), scaled down.
max_turns == 4
\* Players entered in a single elimination.
MaxPlayersSE == 5
\* Players entered in a double elimination.
MaxPlayersDE == 4
\* Players entered in a round robin.
MaxPlayersRR == 4
\* Players entered in a Swiss tournament.
MaxPlayersSW == 3
\* Players seated where the setup is explored (the engine admits 10).
MaxRoster == 10
\* Seats of the games in which the turn order is followed.
TurnOrderSeats == 3
\* Players entered in the Swiss tournament of bots ranked by strength.
RankedPlayers == 5
SwissTables == 3
\* Games of a match that is run on its own.
MaxGames == 4
\* Games of a match (100 unless the tournament is told otherwise).
games_per_match == 2

\* ------------------------------------------------------------- cards

None == "None"

\* The card values of the configured deck: colour letter, then label.
Cards == {"R1", "B1", "B2", "RS", "BR", "W4"}

\* How many cards of each value a fresh deck holds.
FreshDeck == [c \in Cards |-> IF c = "R1" THEN 2 ELSE 1]

CardColor(c) ==
    CASE c \in {"R1", "RS"} -> "RED"
      [] c \in {"B1", "B2", "BR"} -> "BLUE"
      [] OTHER -> "WILD"

CardLabel(c) ==
    CASE c \in {"R1", "B1"} -> "1"
      [] c = "B2" -> "2"
      [] c = "RS" -> "SKIP"
      [] c = "BR" -> "REVERSE"
      [] OTHER -> "WILD_DRAW_FOUR"

is_wild(c) == CardColor(c) = "WILD"

is_action_card(c) == CardLabel(c) \in {"SKIP", "REVERSE", "DRAW_TWO"}

\* Point value of a card in a hand: face value, 20 for actions, 50 for wilds.
CardPoints(c) ==
    CASE CardLabel(c) = "1" -> 1
      [] CardLabel(c) = "2" -> 2
      [] is_wild(c) -> 50
      [] OTHER -> 20

\* The colours a player may name with a play.
Colors == {"RED", "BLUE"}

\* Card.can_play_on(top_card, current_color)
can_play_on(card, top_card, color) ==
    \/ is_wild(card)
    \/ CardColor(card) = color
    \/ CardLabel(card) = CardLabel(top_card)

\* ------------------------------------------------------------- multisets

EmptyHand == [c \in Cards |-> 0]

\* The card values in a fixed order, to sum over
CardSeq == <<"R1", "B1", "B2", "RS", "BR", "W4">>

RECURSIVE SumFrom(_, _)
SumFrom(f, i) ==
    IF i > Len(CardSeq) THEN 0 ELSE f[CardSeq[i]] + SumFrom(f, i + 1)

SumOver(f) == SumFrom(f, 1)

Size(h) == SumOver(h)

Support(h) == {c \in Cards : h[c] > 0}

AddCard(h, c) == [h EXCEPT ![c] = @ + 1]

RemoveCard(h, c) == [h EXCEPT ![c] = @ - 1]

RECURSIVE SeqCount(_)
SeqCount(s) ==
    IF s = <<>> THEN EmptyHand ELSE AddCard(SeqCount(Tail(s)), Head(s))

Plus(h1, h2) == [c \in Cards |-> h1[c] + h2[c]]

Last(s) == s[Len(s)]

Front(s) == SubSeq(s, 1, Len(s) - 1)

\* ------------------------------------------------------------- engine state

VARIABLES
    players,               \* UnoGameEngine.players: the seated player ids, in seat order
    scores,                \* UnoGameEngine.scores: player id -> score
    deck,                  \* UnoGameEngine.deck: count vector of the draw pile
    discard_pile,          \* UnoGameEngine.discard_pile: sequence, top card last
    hands,                 \* Player.hand of each seat: sequence of count vectors
    current_player_index,  \* 0-based seat of the acting player
    game_direction,        \* 1 (CLOCKWISE) or -1 (COUNTER_CLOCKWISE)
    current_color,         \* the active colour
    game_state,            \* GameState
    turn_count,
    pc,                    \* position in auto_play_game
    winner,                \* the player auto_play_game returns
    last_turn,             \* the latest play_turn call: the card and colour the
                           \* agent named, the path the call took, its result
    endless_reshuffle      \* UnoGameEngine.endless_reshuffle

engineVars ==
    <<players, scores, deck, discard_pile, hands, current_player_index,
      game_direction, current_color, game_state, turn_count,
      pc, winner, last_turn, endless_reshuffle>>

VARIABLES
    format,                \* UNOTournament.format ("none": no tournament built)
    original_players,      \* the number of bots entered; they are 1..original_players
    entrants,              \* the TournamentPlayer of every bracket entry, by id
    bracket,               \* UNOTournament.bracket: the seeded entries
    rounds,                \* UNOTournament.rounds: the matches of each round
    _match_players,        \* the TournamentPlayer pairs of the current round
    _next_round_players,   \* the players a bye carried past round 1
    round_robin_matches,   \* every pairing of a round robin
    winners_bracket,
    losers_bracket,
    results,               \* UNOTournament.results
    tournament_winner,     \* UNOTournament.winner (0: None)
    completed,
    tpc,                   \* position in run_tournament
    match_index,           \* the position of the running loop over matches or pairs
    round_number,          \* locals of _run_single_elimination
    current_winners,
    round_winners,
    round_num,             \* locals of _run_double_elimination
    winners_next_round,
    losers_first_round,
    new_winners,
    new_losers,
    losers_next_round,
    match,                 \* the grand final's MatchResult
    match2,                \* the MatchResult of the second grand final match
    opponents_faced,       \* TournamentPlayer.opponents_faced, by player
    swiss_rounds,          \* UNOTournament.swiss_rounds: the pairings of each round
    pairings,              \* _run_swiss: the pairings of the running round
    num_games,             \* UnoSimulation.num_games of a match run on its own
    game_num,              \* the games of the simulation that are over
    win_counts,            \* UnoSimulation.win_counts of the two bots
    last_game,             \* how the latest game ended, and who raised in it
    match_result,          \* the MatchResult after run_match
    mpc                    \* position in MatchResult.run_match

bracketVars ==
    <<format, original_players, entrants, bracket, rounds, _match_players,
      _next_round_players, round_robin_matches, winners_bracket, losers_bracket,
      results, tournament_winner, completed, tpc, match_index, round_number,
      current_winners, round_winners, round_num, winners_next_round,
      losers_first_round, new_winners, new_losers, losers_next_round,
      match, match2, opponents_faced, swiss_rounds, pairings>>

\* The state of a match that is run on its own
matchVars == <<num_games, game_num, win_counts, last_game, match_result, mpc>>

tournamentVars == <<bracketVars, matchVars>>

\* The state only a Swiss tournament writes
swissVars == <<opponents_faced, swiss_rounds, pairings>>

\* The engine's fields that a turn reads and writes, as one record.
Game ==
    [deck |-> deck, discard_pile |-> discard_pile, hands |-> hands,
     current_player_index |-> current_player_index,
     game_direction |-> game_direction, current_color |-> current_color,
     game_state |-> game_state, turn_count |-> turn_count]

NoAction == [draw_card |-> FALSE, card |-> None, new_color |-> None]

\* What an agent may answer: draw, play any card value (held or not, legal or
\* not) with or without a colour, or an action that names neither.
PlayerActions ==
    {[draw_card |-> TRUE, card |-> None, new_color |-> None]}
    \cup [draw_card : {FALSE}, card : Cards, new_color : Colors \cup {None}]
    \cup {NoAction}

\* get_top_discard_card
get_top_discard_card(g) == Last(g.discard_pile)

\* get_playable_cards: the cards of the hand, filtered one by one
RECURSIVE FilterPlayable(_, _, _)
FilterPlayable(g, hand, S) ==
    IF S = {} THEN EmptyHand
    ELSE LET c == CHOOSE x \in S : TRUE
             rest == FilterPlayable(g, hand, S \ {c})
         IN  IF can_play_on(c, get_top_discard_card(g), g.current_color)
             THEN [rest EXCEPT ![c] = hand[c]]
             ELSE rest

get_playable_cards(g, seat) == FilterPlayable(g, g.hands[seat + 1], Cards)

\* A next_turn that leaves the turn with the player who just acted
next_turn_stays(g) ==
    [g EXCEPT !.current_player_index = @ % Len(g.hands)]

\* next_turn
next_turn(g) ==
    IF g.game_direction = 1
    THEN [g EXCEPT !.current_player_index = (@ + 1) % Len(g.hands)]
    ELSE [g EXCEPT !.current_player_index = (@ - 1) % Len(g.hands)]

\* reverse_direction
reverse_direction(g) ==
    [g EXCEPT !.game_direction = IF @ = 1 THEN -1 ELSE 1]

\* A reshuffle that puts the whole pile into the deck and keeps the top too
reshuffle_copying_top(g) ==
    IF Len(g.discard_pile) <= 1
    THEN [ok |-> FALSE, g |-> g]
    ELSE [ok |-> TRUE,
          g |-> [g EXCEPT !.deck = Plus(@, SeqCount(g.discard_pile)),
                          !.discard_pile = <<Last(g.discard_pile)>>]]

\* A reshuffle that keeps the bottom card of the pile instead of the top
reshuffle_keeping_bottom(g) ==
    IF Len(g.discard_pile) <= 1
    THEN [ok |-> FALSE, g |-> g]
    ELSE [ok |-> TRUE,
          g |-> [g EXCEPT !.deck = Plus(@, SeqCount(Tail(g.discard_pile))),
                          !.discard_pile = <<Head(g.discard_pile)>>]]

\* A reshuffle that refuses only an empty pile
reshuffle_accepting_lone_card(g) ==
    IF Len(g.discard_pile) < 1
    THEN [ok |-> FALSE, g |-> g]
    ELSE [ok |-> TRUE,
          g |-> [g EXCEPT !.deck = Plus(@, SeqCount(Front(g.discard_pile))),
                          !.discard_pile = <<Last(g.discard_pile)>>]]

\* _reshuffle_discard_pile: ok = FALSE stands for the ValueError
_reshuffle_discard_pile(g) ==
    IF Len(g.discard_pile) <= 1
    THEN [ok |-> FALSE, g |-> g]
    ELSE [ok |-> TRUE,
          g |-> [g EXCEPT !.deck = Plus(@, SeqCount(Front(g.discard_pile))),
                          !.discard_pile = <<Last(g.discard_pile)>>]]

\* A play_card that tests only that the card is held
PlayAllowedIfHeld(g, seat, card) == g.hands[seat + 1][card] > 0

\* The legality test of play_card
PlayAllowed(g, seat, card) ==
    /\ g.hands[seat + 1][card] > 0
    /\ can_play_on(card, get_top_discard_card(g), g.current_color)

\* The colour update of play_card
ColorAfterPlay(g, card, new_color) ==
    IF new_color # None THEN new_color
    ELSE IF CardColor(card) # "WILD" THEN CardColor(card)
    ELSE g.current_color

\* play_card: ok = FALSE stands for the ValueError, raised before any change
play_card(g, seat, card, new_color) ==
    IF ~PlayAllowed(g, seat, card)
    THEN [ok |-> FALSE, g |-> g]
    ELSE [ok |-> TRUE,
          g |-> [g EXCEPT !.hands[seat + 1] = RemoveCard(@, card),
                          !.discard_pile = Append(@, card),
                          !.current_color = ColorAfterPlay(g, card, new_color)]]

\* A winner check that looks at the first seat only
check_first_seat(g) == IF Size(g.hands[1]) = 0 THEN 1 ELSE 0

\* check_winner: the id of the first player whose hand is empty; 0 stands
\* for None (player ids are 1, 2, ... in seat order)
check_winner(g) ==
    IF \E i \in 1..Len(g.hands) : Size(g.hands[i]) = 0
    THEN CHOOSE i \in 1..Len(g.hands) :
            /\ Size(g.hands[i]) = 0
            /\ \A j \in 1..(i - 1) : Size(g.hands[j]) # 0
    ELSE 0

\* The deck a draw takes from: reshuffled first when empty and allowed.
DeckForDraw(g) ==
    IF Size(g.deck) > 0 THEN g
    ELSE IF endless_reshuffle THEN _reshuffle_discard_pile(g).g
    ELSE g

\* Whether draw_card can supply a card
CanDraw(g) ==
    \/ Size(g.deck) > 0
    \/ endless_reshuffle /\ _reshuffle_discard_pile(g).ok

\* draw_card: `pick` is the card on top of the shuffled deck; ok = FALSE stands
\* for the ValueError, raised after game_state is set to ROUND_OVER.
draw_card(g, seat, pick) ==
    IF ~CanDraw(g)
    THEN [ok |-> FALSE, g |-> [g EXCEPT !.game_state = "ROUND_OVER"]]
    ELSE [ok |-> TRUE,
          g |-> [DeckForDraw(g) EXCEPT !.deck = RemoveCard(@, pick),
                                       !.hands[seat + 1] = AddCard(@, pick)]]

\* _end_game_with_scores: the winner it computes is a local that is dropped
_end_game_with_scores(g) == [g EXCEPT !.game_state = "ROUND_OVER"]

\* Card effects in which a REVERSE does nothing
apply_effects_without_reverse(g, card) ==
    IF CardLabel(card) = "SKIP" THEN next_turn(g) ELSE g

\* The card effects play_turn applies after an agent's play (lines 319-328);
\* for DRAW_TWO and WILD_DRAW_FOUR it only computes a local draw_count
ApplyEffects(g, card) ==
    IF CardLabel(card) = "REVERSE" THEN reverse_direction(g)
    ELSE IF CardLabel(card) = "SKIP" THEN next_turn(g)
    ELSE g

\* An end of play_turn that passes the turn on without looking for a winner
finish_turn_unchecked(g, branch) ==
    [ret |-> TRUE, g |-> next_turn(g), branch |-> branch]

\* The end of play_turn (lines 342-351): winner check, then the next player.
\* `branch` names the path the turn took.
FinishTurn(g, branch) ==
    IF check_winner(g) # 0
    THEN [ret |-> FALSE, g |-> [g EXCEPT !.game_state = "ROUND_OVER"],
          branch |-> branch]
    ELSE [ret |-> TRUE, g |-> next_turn(g), branch |-> branch]

\* A turn that ends in _end_game_with_scores and reports that the game goes on
end_turn_and_go_on(g, branch) ==
    [ret |-> TRUE, g |-> _end_game_with_scores(g), branch |-> branch]

\* A turn that ends in _end_game_with_scores and returns False
EndTurn(g, branch) ==
    [ret |-> FALSE, g |-> _end_game_with_scores(g), branch |-> branch]

\* A draw branch that plays every playable drawn card, whatever the agent says
draw_branch_always_playing(g, seat, pick, approve) ==
    LET d == draw_card(g, seat, pick) IN
    IF ~d.ok
    THEN EndTurn(d.g, "draw_failed")
    ELSE IF can_play_on(pick, get_top_discard_card(d.g), d.g.current_color)
         THEN FinishTurn(play_card(d.g, seat, pick, None).g, "drew_played")
         ELSE FinishTurn(d.g, "drew")

\* The branch of play_turn where the agent draws (lines 298-309)
DrawBranch(g, seat, pick, approve) ==
    LET d == draw_card(g, seat, pick) IN
    IF ~d.ok
    THEN EndTurn(d.g, "draw_failed")
    ELSE IF /\ can_play_on(pick, get_top_discard_card(d.g), d.g.current_color)
            /\ approve
         THEN FinishTurn(play_card(d.g, seat, pick, None).g, "drew_played")
         ELSE FinishTurn(d.g, "drew")

\* The branch of play_turn where the agent names a card (lines 311-336)
PlayBranch(g, seat, act, pick) ==
    LET p == play_card(g, seat, act.card, act.new_color) IN
    IF p.ok
    THEN FinishTurn(ApplyEffects(p.g, act.card), "played")
    ELSE LET d == draw_card(g, seat, pick) IN
         IF d.ok
         THEN FinishTurn(d.g, "refused_drew")
         ELSE EndTurn(d.g, "refused_no_card")

\* A play_turn that counts the turn before it tests the ceiling
play_turn_counting_first(g, act, pick, approve) ==
    LET g1 == [g EXCEPT !.turn_count = @ + 1]
        seat == g.current_player_index
    IN  IF g.turn_count >= max_turns
        THEN EndTurn(g1, "ceiling")
        ELSE IF act.draw_card THEN DrawBranch(g1, seat, pick, approve)
        ELSE IF act.card # None THEN PlayBranch(g1, seat, act, pick)
        ELSE FinishTurn(g1, "no_action")

\* A play_turn whose ceiling test is off by one
play_turn_late_ceiling(g, act, pick, approve) ==
    IF g.turn_count > max_turns
    THEN EndTurn(g, "ceiling")
    ELSE LET g1 == [g EXCEPT !.turn_count = @ + 1]
             seat == g.current_player_index
         IN  IF act.draw_card THEN DrawBranch(g1, seat, pick, approve)
             ELSE IF act.card # None THEN PlayBranch(g1, seat, act, pick)
             ELSE FinishTurn(g1, "no_action")

\* play_turn
play_turn(g, act, pick, approve) ==
    IF g.turn_count >= max_turns
    THEN EndTurn(g, "ceiling")
    ELSE LET g1 == [g EXCEPT !.turn_count = @ + 1]
             seat == g.current_player_index
         IN  IF act.draw_card THEN DrawBranch(g1, seat, pick, approve)
             ELSE IF act.card # None THEN PlayBranch(g1, seat, act, pick)
             ELSE FinishTurn(g1, "no_action")

\* calculate_hand_score of a hand
calculate_hand_score(h) == SumOver([c \in Cards |-> h[c] * CardPoints(c)])

\* The winner auto_play_game reports (lines 421-442): the player with an empty
\* hand, else the first player in seat order with the lowest hand score.
ReportedWinner(g) ==
    IF check_winner(g) # 0 THEN check_winner(g)
    ELSE CHOOSE i \in 1..Len(g.hands) :
            /\ \A j \in 1..Len(g.hands) :
                 calculate_hand_score(g.hands[i]) <= calculate_hand_score(g.hands[j])
            /\ \A j \in 1..(i - 1) :
                 calculate_hand_score(g.hands[j]) > calculate_hand_score(g.hands[i])

\* ------------------------------------------------------------- engine actions

\* The hands of k cards that can be drawn from deck d
RECURSIVE Draws(_, _)
Draws(d, k) ==
    IF k = 0 THEN {EmptyHand}
    ELSE UNION {{AddCard(h, c) : h \in Draws(RemoveCard(d, c), k - 1)} :
                c \in Support(d)}

\* _deal_initial_cards: the decks and hands after dealing to seats i..n
RECURSIVE Deals(_, _, _)
Deals(d, hs, n) ==
    IF Len(hs) = n THEN {[deck |-> d, hands |-> hs]}
    ELSE UNION {Deals([c \in Cards |-> d[c] - h[c]], Append(hs, h), n) :
                h \in Draws(d, CardsPerPlayer)}

\* A _setup_discard_pile that accepts whatever card it flips first
AnyStartCard(d) == Support(d)

\* The cards _setup_discard_pile accepts as the first discard
StartCards(d) == {c \in Support(d) : ~is_wild(c) /\ ~is_action_card(c)}

NoTurn ==
    [draw_card |-> FALSE, card |-> None, new_color |-> None, branch |-> "none",
     ret |-> TRUE]

EngineInit ==
    /\ players = <<>>
    /\ scores = <<>>
    /\ deck = FreshDeck
    /\ discard_pile = <<>>
    /\ hands = <<>>
    /\ current_player_index = 0
    /\ game_direction = 1
    /\ current_color = None
    /\ game_state = "WAITING_FOR_PLAYERS"
    /\ turn_count = 0
    /\ pc = "setup"
    /\ winner = 0
    /\ last_turn = NoTurn
    /\ endless_reshuffle \in BOOLEAN

\* The engine as UnoSimulation creates it for a match: endless_reshuffle=True
SimulationEngine == EngineInit /\ endless_reshuffle = TRUE

\* The engine after add_player has seated TurnOrderSeats fresh players
SeatedEngine ==
    /\ players = [i \in 1..TurnOrderSeats |-> i]
    /\ scores = [i \in 1..TurnOrderSeats |-> 0]
    /\ deck = FreshDeck
    /\ discard_pile = <<>>
    /\ hands = [i \in 1..TurnOrderSeats |-> EmptyHand]
    /\ current_player_index = 0
    /\ game_direction = 1
    /\ current_color = None
    /\ game_state = "WAITING_FOR_PLAYERS"
    /\ turn_count = 0
    /\ pc = "setup"
    /\ winner = 0
    /\ last_turn = NoTurn
    /\ endless_reshuffle \in BOOLEAN

\* add_player, with a freshly created player (empty hand), while fewer than
\* `seats` players are seated
add_player_below(seats) ==
    /\ pc = "setup"
    /\ game_state = "WAITING_FOR_PLAYERS"
    /\ Len(players) < 10
    /\ Len(players) < seats
    /\ players' = Append(players, Len(players) + 1)
    /\ scores' = Append(scores, 0)
    /\ hands' = Append(hands, EmptyHand)
    /\ UNCHANGED <<deck, discard_pile, current_player_index, game_direction,
                   current_color, game_state, turn_count, pc, winner, last_turn>>
    /\ UNCHANGED <<endless_reshuffle, tournamentVars>>

\* add_player in the games that are explored
add_player == add_player_below(MaxSeats)

\* add_player up to the roster the engine admits
add_player_to_roster == add_player_below(MaxRoster)

\* An add_player that seats the player before it raises
add_player_raising_late ==
    /\ pc \in {"setup", "loop", "raised"}
    /\ game_state # "WAITING_FOR_PLAYERS" \/ Len(players) >= 10
    /\ pc' = "add_player_raised"
    /\ players' = Append(players, Len(players) + 1)
    /\ scores' = Append(scores, 0)
    /\ UNCHANGED <<deck, discard_pile, hands, current_player_index,
                   game_direction, current_color, game_state, turn_count,
                   winner, last_turn>>
    /\ UNCHANGED <<endless_reshuffle, tournamentVars>>

\* add_player when it raises (lines 59-63): the game has left
\* WAITING_FOR_PLAYERS, or 10 players are seated
add_player_raises ==
    /\ pc \in {"setup", "loop", "raised"}
    /\ game_state # "WAITING_FOR_PLAYERS" \/ Len(players) >= 10
    /\ pc' = "add_player_raised"
    /\ UNCHANGED <<players, scores, deck, discard_pile, hands,
                   current_player_index, game_direction, current_color,
                   game_state, turn_count, winner, last_turn>>
    /\ UNCHANGED <<endless_reshuffle, tournamentVars>>

\* The players _deal_initial_cards can serve before the deck runs short
Served == IF Size(deck) \div CardsPerPlayer < Len(players)
          THEN Size(deck) \div CardsPerPlayer ELSE Len(players)

\* initialize_game, as auto_play_game calls it: deal, first discard, starting
\* seat.  The flips _setup_discard_pile rejects go back into the deck, so the
\* deck loses the accepted card alone.  The call raises with fewer than two
\* players and when the deck cannot serve every player; with no card left
\* that may start the pile it raises (empty deck) or never returns.
initialize_game ==
    /\ pc = "setup"
    /\ IF Len(players) < 2
       THEN /\ pc' = "raised"
            /\ UNCHANGED <<deck, hands, discard_pile, current_color,
                           current_player_index, turn_count, game_state>>
       ELSE \E dl \in Deals(deck, <<>>, Served) :
              /\ turn_count' = 0
              /\ IF Served < Len(players)
                 THEN /\ deck' = dl.deck
                      /\ hands' = [i \in 1..Len(players) |->
                                     IF i <= Served THEN dl.hands[i] ELSE EmptyHand]
                      /\ discard_pile' = <<>>
                      /\ game_state' = "DEALING_CARDS"
                      /\ pc' = "raised"
                      /\ UNCHANGED <<current_color, current_player_index>>
                 ELSE IF StartCards(dl.deck) = {}
                 THEN /\ deck' = dl.deck
                      /\ hands' = dl.hands
                      /\ discard_pile' = <<>>
                      /\ game_state' = "DEALING_CARDS"
                      /\ pc' = IF Size(dl.deck) = 0 THEN "raised" ELSE "spinning"
                      /\ UNCHANGED <<current_color, current_player_index>>
                 ELSE \E first \in StartCards(dl.deck) :
                      /\ deck' = RemoveCard(dl.deck, first)
                      /\ hands' = dl.hands
                      /\ discard_pile' = <<first>>
                      /\ current_color' = CardColor(first)
                      /\ current_player_index' \in 0..(Len(players) - 1)
                      /\ game_state' = "IN_PROGRESS"
                      /\ pc' = "loop"
    /\ UNCHANGED <<players, scores, game_direction, winner, last_turn>>
    /\ UNCHANGED <<endless_reshuffle, tournamentVars>>

\* Whether the turn draws a card from the deck: the agent draws, or its play is
\* refused and a draw is forced
TurnDraws(g, act) ==
    /\ g.turn_count < max_turns
    /\ \/ act.draw_card
       \/ act.card # None /\ ~PlayAllowed(g, g.current_player_index, act.card)
    /\ CanDraw(g)

\* The cards the draw of this turn may take (None when the turn draws nothing)
DrawChoices(g, act) ==
    IF TurnDraws(g, act) THEN Support(DeckForDraw(g).deck) ELSE {None}

\* The cards not in the acting hand; play_card treats them all alike
NotHeld(g) == {c \in Cards : g.hands[g.current_player_index + 1][c] = 0}

\* The agent's answers that lead to different turns: of the cards it does not
\* hold the agent names one, and the colour passed with a play that play_card
\* refuses is never read
TurnActions(g) ==
    {a \in PlayerActions :
        /\ a.card \in NotHeld(g) => a.card = CHOOSE c \in NotHeld(g) : TRUE
        /\ (a.card # None /\ ~PlayAllowed(g, g.current_player_index, a.card))
             => a.new_color = None}

\* One iteration of the loop of auto_play_game: a play_turn call.  The agent
\* supplies its action and its should_play_drawn_card answer; the shuffle
\* supplies the card drawn.
PlayTurn ==
    /\ pc = "loop"
    /\ game_state = "IN_PROGRESS"
    /\ \E act \in TurnActions(Game) :
         \E pick \in DrawChoices(Game, act) :
           \E approve \in IF act.draw_card THEN BOOLEAN ELSE {FALSE} :
             \E r \in {play_turn(Game, act, pick, approve)} :
                /\ deck' = r.g.deck
                /\ discard_pile' = r.g.discard_pile
                /\ hands' = r.g.hands
                /\ current_player_index' = r.g.current_player_index
                /\ game_direction' = r.g.game_direction
                /\ current_color' = r.g.current_color
                /\ game_state' = r.g.game_state
                /\ turn_count' = r.g.turn_count
                /\ last_turn' = [draw_card |-> r.branch # "ceiling" /\ act.draw_card,
                                 card |-> IF r.branch = "ceiling" THEN None
                                           ELSE act.card,
                                 new_color |-> IF r.branch = "ceiling" THEN None
                                                ELSE act.new_color,
                                 branch |-> r.branch, ret |-> r.ret]
                /\ pc' = IF r.ret THEN "loop" ELSE "scoring"
    /\ UNCHANGED <<players, scores, winner>>
    /\ UNCHANGED <<endless_reshuffle, tournamentVars>>

\* The end of auto_play_game (lines 421-442)
DetermineWinner ==
    /\ pc = "scoring"
    /\ winner' = IF game_state = "ROUND_OVER" THEN ReportedWinner(Game) ELSE 0
    /\ pc' = "done"
    /\ UNCHANGED <<players, scores, deck, discard_pile, hands,
                   current_player_index, game_direction, current_color,
                   game_state, turn_count, last_turn>>
    /\ UNCHANGED <<endless_reshuffle, tournamentVars>>

\* ------------------------------------------------------------- matches

\* The win counts run_simulation can report for the two bots of a match:
\* every game credits its winner, and a game that raises credits nobody;
\* with no win at all _generate_statistics divides by zero and nothing is
\* reported
run_simulation ==
    {w \in (0..games_per_match) \X (0..games_per_match) :
        w[1] + w[2] <= games_per_match /\ w[1] + w[2] > 0}

\* A run_match that names no winner on equal counts
run_match_undecided(player1, player2, player1_wins, player2_wins, choice) ==
    [player1 |-> player1, player2 |-> player2,
     match_winner |-> IF player1_wins > player2_wins THEN player1
                      ELSE IF player2_wins > player1_wins THEN player2
                      ELSE 0,
     draws |-> IF player1_wins = player2_wins THEN 1 ELSE 0,
     is_draw |-> player1_wins = player2_wins]

\* MatchResult.run_match on the win counts of the simulation; choice is the
\* bot random.choice picks on equal counts
run_match(player1, player2, player1_wins, player2_wins, choice) ==
    [player1 |-> player1, player2 |-> player2,
     match_winner |-> IF player1_wins > player2_wins THEN player1
                      ELSE IF player2_wins > player1_wins THEN player2
                      ELSE choice,
     draws |-> IF player1_wins = player2_wins THEN 1 ELSE 0,
     is_draw |-> player1_wins = player2_wins]

\* The ways a match can end between two bots of which the one entered later
\* is the stronger and wins more games than the other
RankedRuns(player1, player2) ==
    {run_match(player1, player2, w[1], w[2], player1) :
        w \in {v \in run_simulation :
                 IF player1 > player2 THEN v[1] > v[2] ELSE v[2] > v[1]}}

\* Every way a match between two bots can end
MatchRuns(player1, player2) ==
    {run_match(player1, player2, w[1], w[2], choice) :
        w \in run_simulation, choice \in {player1, player2}}

NoMatch ==
    [player1 |-> 0, player2 |-> 0, match_winner |-> 0, draws |-> 0,
     is_draw |-> FALSE]

\* ------------------------------------------------------------- a match on its own

\* No game of a simulation has ended
NoGame == [winner |-> 0, raised_by |-> 0]

\* No match is run on its own
NoDuel ==
    /\ num_games = 0
    /\ game_num = 0
    /\ win_counts = <<0, 0>>
    /\ last_game = NoGame
    /\ match_result = NoMatch
    /\ mpc = "none"

\* MatchResult(player1, player2, games_per_match) for bots 1 and 2, at the
\* call of run_match
MatchResult ==
    /\ num_games \in 1..MaxGames
    /\ game_num = 0
    /\ win_counts = <<0, 0>>
    /\ last_game = NoGame
    /\ match_result = NoMatch
    /\ mpc = "simulating"

\* How a game of the simulation can end: auto_play_game returns one of the
\* two players, or an exception of a bot leaves play_turn and auto_play_game
GameOutcomes ==
    {[winner |-> p, raised_by |-> 0] : p \in {1, 2}}
        \cup {[winner |-> 0, raised_by |-> p] : p \in {1, 2}}

\* The win counts after a game: the winner's count grows; the except branch
\* goes on to the next game and credits nobody
count_game(counts, game) ==
    IF game.winner # 0 THEN [counts EXCEPT ![game.winner] = @ + 1] ELSE counts

\* run_simulation: one pass of the loop over the games
PlayGame ==
    /\ mpc = "simulating"
    /\ game_num < num_games
    /\ \E game \in GameOutcomes :
          /\ win_counts' = count_game(win_counts, game)
          /\ last_game' = game
    /\ game_num' = game_num + 1
    /\ UNCHANGED <<num_games, match_result, mpc>>
    /\ UNCHANGED <<bracketVars, engineVars>>

\* The end of run_simulation and of run_match: with no win at all
\* _generate_statistics raises ZeroDivisionError, otherwise the match winner is
\* determined from the win counts
FinishMatch ==
    /\ mpc = "simulating"
    /\ game_num = num_games
    /\ IF win_counts[1] + win_counts[2] = 0
       THEN /\ mpc' = "raised"
            /\ UNCHANGED match_result
       ELSE /\ mpc' = "returned"
            /\ \E choice \in {1, 2} :
                  match_result' =
                     run_match(1, 2, win_counts[1], win_counts[2], choice)
    /\ UNCHANGED <<num_games, game_num, win_counts, last_game>>
    /\ UNCHANGED <<bracketVars, engineVars>>

\* ------------------------------------------------------------- tournament players

TournamentPlayer ==
    [wins |-> 0, losses |-> 0, draws |-> 0, points |-> 0, eliminated |-> FALSE]

\* The dummy bot of bye i: RandomBot(f"BYE_{i}", 999 + i)
BYE(k) == 999 + k

\* "BYE_" in name
IsBye(p) == p >= BYE(0)

SeqSet(s) == {s[k] : k \in DOMAIN s}

\* random.shuffle of the players
Shuffles(n) == Permutations(1..n)

RECURSIVE ShiftLeft(_, _)
ShiftLeft(p, n) == IF p < n THEN ShiftLeft(2 * p, n) ELSE p

\* The while loop that doubles next_power_of_two
next_power_of_two(n) == ShiftLeft(1, n)

\* The shuffled players with the byes appended behind them
WithByes(active_players) ==
    active_players \o
        [k \in 1..(next_power_of_two(Len(active_players)) - Len(active_players))
            |-> BYE(k - 1)]

\* A win that leaves the loser in the tournament, marking every loss at once
win_eliminating(e, winner_t, loser_t) ==
    [e EXCEPT ![winner_t].wins = @ + 1, ![winner_t].points = @ + 3,
              ![loser_t].losses = @ + 1, ![loser_t].eliminated = TRUE]

\* A win that is worth two points
win_two_points(e, winner_t, loser_t) ==
    [e EXCEPT ![winner_t].wins = @ + 1, ![winner_t].points = @ + 2,
              ![loser_t].losses = @ + 1]

\* A win that counts the loser's loss twice
win_counting_loss_twice(e, winner_t, loser_t) ==
    [e EXCEPT ![winner_t].wins = @ + 1, ![winner_t].points = @ + 3,
              ![loser_t].losses = @ + 2]

\* wins += 1, points += 3 for the winner, losses += 1 for the loser
win(e, winner_t, loser_t) ==
    [e EXCEPT ![winner_t].wins = @ + 1, ![winner_t].points = @ + 3,
              ![loser_t].losses = @ + 1]

\* The same, and the loser is eliminated
win_and_eliminate(e, winner_t, loser_t) ==
    [win(e, winner_t, loser_t) EXCEPT ![loser_t].eliminated = TRUE]

\* The draw branch of a match: draws += 1 and points += 1 on both sides
draw(e, player1_t, player2_t) ==
    [e EXCEPT ![player1_t].draws = @ + 1, ![player1_t].points = @ + 1,
              ![player2_t].draws = @ + 1, ![player2_t].points = @ + 1]

\* The draw branch of single elimination: a coin picks who advances
draw_advance(e, winner_t, loser_t) ==
    [draw(e, winner_t, loser_t) EXCEPT ![winner_t].wins = @ + 1,
                                       ![loser_t].losses = @ + 1]

\* The dictionary appended to results (the win counts are left out)
Result(r, m) ==
    [round |-> r, player1 |-> m.player1, player2 |-> m.player2,
     winner |-> m.match_winner, is_draw |-> m.is_draw]

\* The dictionary a double elimination appends to results
BracketResult(r, b, m) ==
    [round |-> r, bracket |-> b, player1 |-> m.player1, player2 |-> m.player2,
     winner |-> m.match_winner]

\* ------------------------------------------------------------- brackets

\* _create_initial_matches from pair k on: a pair with a bye advances its
\* second entry if the first is a bye and its first entry otherwise
RECURSIVE InitialPairs(_, _, _)
InitialPairs(bracket_players, k, acc) ==
    IF k + 1 > Len(bracket_players) THEN acc
    ELSE LET player1_t == bracket_players[k]
             player2_t == bracket_players[k + 1]
             winner_t == IF IsBye(player1_t) THEN player2_t ELSE player1_t
             loser_t == IF IsBye(player1_t) THEN player1_t ELSE player2_t
         IN  IF IsBye(player1_t) \/ IsBye(player2_t)
             THEN InitialPairs(bracket_players, k + 2,
                      [acc EXCEPT
                          !.entrants = win_and_eliminate(@, winner_t, loser_t),
                          !.round_players = Append(@, winner_t)])
             ELSE InitialPairs(bracket_players, k + 2,
                      [acc EXCEPT
                          !.matches = Append(@, <<player1_t, player2_t>>)])

\* _create_initial_matches
_create_initial_matches(bracket_players) ==
    LET acc == InitialPairs(bracket_players, 1,
                   [matches |-> <<>>, round_players |-> <<>>,
                    entrants |-> [p \in SeqSet(bracket_players)
                                     |-> TournamentPlayer]])
    IN  [entrants |-> acc.entrants,
         _match_players |-> acc.matches,
         rounds |-> IF acc.matches # <<>> THEN <<acc.matches>> ELSE <<>>,
         _next_round_players |->
             IF acc.matches # <<>> THEN acc.round_players ELSE <<>>]

\* The pairs (1,2), (3,4), ... of a list; an odd last entry is left out
Pairs(s) == [k \in 1..(Len(s) \div 2) |-> <<s[2 * k - 1], s[2 * k]>>]

\* A _create_next_round that takes two winners for a finished tournament
create_next_round_early_stop(rs, mp, winners) ==
    IF Len(winners) <= 2 THEN [rounds |-> rs, _match_players |-> mp]
    ELSE [rounds |-> IF Pairs(winners) # <<>> THEN Append(rs, Pairs(winners))
                     ELSE rs,
          _match_players |-> Pairs(winners)]

\* _create_next_round
_create_next_round(rs, mp, winners) ==
    IF Len(winners) <= 1 THEN [rounds |-> rs, _match_players |-> mp]
    ELSE [rounds |-> IF Pairs(winners) # <<>> THEN Append(rs, Pairs(winners))
                     ELSE rs,
          _match_players |-> Pairs(winners)]

\* A schedule that pairs every player with the next one in the list only
adjacent_pairs(s, a, b) ==
    [k \in a..(Len(s) - 1) |-> <<s[k], s[k + 1]>>]

\* The pairings of a round robin: (i, j) for i < j, in the order of the loops
RECURSIVE AllPairs(_, _, _)
AllPairs(s, a, b) ==
    IF a >= Len(s) THEN <<>>
    ELSE IF b > Len(s) THEN AllPairs(s, a + 1, a + 2)
    ELSE <<<<s[a], s[b]>>>> \o AllPairs(s, a, b + 1)

\* Whether p stands above q: points, then wins, then fewer losses
Above(e, p, q) ==
    \/ e[p].points > e[q].points
    \/ e[p].points = e[q].points /\ e[p].wins > e[q].wins
    \/ e[p].points = e[q].points /\ e[p].wins = e[q].wins
         /\ e[p].losses < e[q].losses

RECURSIVE Standings(_, _)
Standings(e, S) ==
    IF S = {} THEN <<>>
    ELSE LET p == CHOOSE x \in S : \A y \in S \ {x} :
                      Above(e, x, y) \/ (~Above(e, y, x) /\ x < y)
         IN  <<p>> \o Standings(e, S \ {p})

\* get_standings (formats other than Swiss): self.players in a stable
\* descending sort
get_standings(e, n) == Standings(e, 1..n)

\* ------------------------------------------------------------- tournament

\* No tournament has been built
NoBracket ==
    /\ format = "none"
    /\ original_players = 0
    /\ entrants = <<>>
    /\ bracket = <<>>
    /\ rounds = <<>>
    /\ _match_players = <<>>
    /\ _next_round_players = <<>>
    /\ round_robin_matches = <<>>
    /\ winners_bracket = <<>>
    /\ losers_bracket = <<>>
    /\ results = <<>>
    /\ tournament_winner = 0
    /\ completed = FALSE
    /\ tpc = "none"
    /\ match_index = 0
    /\ round_number = 0
    /\ current_winners = <<>>
    /\ round_winners = <<>>
    /\ round_num = 0
    /\ winners_next_round = <<>>
    /\ losers_first_round = <<>>
    /\ new_winners = <<>>
    /\ new_losers = <<>>
    /\ losers_next_round = <<>>
    /\ match = NoMatch
    /\ match2 = NoMatch
    /\ opponents_faced = <<>>
    /\ swiss_rounds = <<>>
    /\ pairings = <<>>

\* No tournament has been built and no match is run
NoTournament == NoBracket /\ NoDuel

\* The fields UNOTournament.__init__ sets before create_bracket, and the
\* locals of the run, which no run has set yet
Constructed(fmt, n) ==
    /\ format = fmt
    /\ original_players = n
    /\ results = <<>>
    /\ tournament_winner = 0
    /\ completed = FALSE
    /\ tpc = "created"
    /\ losers_bracket = <<>>
    /\ match_index = 0
    /\ round_number = 0
    /\ current_winners = <<>>
    /\ round_winners = <<>>
    /\ round_num = 0
    /\ winners_next_round = <<>>
    /\ losers_first_round = <<>>
    /\ new_winners = <<>>
    /\ new_losers = <<>>
    /\ losers_next_round = <<>>
    /\ match = NoMatch
    /\ match2 = NoMatch
    /\ NoDuel
    /\ swiss_rounds = <<>>
    /\ pairings = <<>>
    /\ opponents_faced = [p \in 1..n |-> {}]

\* UNOTournament(players, format=SINGLE_ELIMINATION):
\* _create_single_elimination_bracket and _create_initial_matches
_create_single_elimination_bracket ==
    \E n \in 2..MaxPlayersSE : \E active_players \in Shuffles(n) :
      \E first \in {_create_initial_matches(WithByes(active_players))} :
        /\ Constructed("single_elimination", n)
        /\ bracket = WithByes(active_players)
        /\ entrants = first.entrants
        /\ rounds = first.rounds
        /\ _match_players = first._match_players
        /\ _next_round_players = first._next_round_players
        /\ round_robin_matches = <<>>
        /\ winners_bracket = <<>>

\* UNOTournament(players, format=DOUBLE_ELIMINATION)
_create_double_elimination_bracket ==
    \E n \in 2..MaxPlayersDE : \E active_players \in Shuffles(n) :
        /\ Constructed("double_elimination", n)
        /\ bracket = WithByes(active_players)
        /\ entrants = [p \in SeqSet(WithByes(active_players)) |-> TournamentPlayer]
        /\ rounds = <<>>
        /\ _match_players = <<>>
        /\ _next_round_players = <<>>
        /\ round_robin_matches = <<>>
        /\ winners_bracket = WithByes(active_players)

\* UNOTournament(players, format=ROUND_ROBIN)
_create_round_robin_bracket ==
    \E n \in 2..MaxPlayersRR : \E active_players \in Shuffles(n) :
        /\ Constructed("round_robin", n)
        /\ bracket = active_players
        /\ entrants = [p \in SeqSet(active_players) |-> TournamentPlayer]
        /\ rounds = <<>>
        /\ _match_players = <<>>
        /\ _next_round_players = <<>>
        /\ round_robin_matches = AllPairs(active_players, 1, 2)
        /\ winners_bracket = <<>>

\* run_tournament up to the first match of the format's run
run_tournament ==
    /\ tpc = "created"
    /\ tpc' = IF format = "double_elimination" THEN "winners_first" ELSE format
    /\ match_index' = 0
    /\ round_number' = IF format = "single_elimination" THEN 1 ELSE round_number
    /\ current_winners' = IF format = "single_elimination"
                          THEN _next_round_players ELSE current_winners
    /\ UNCHANGED <<format, original_players, entrants, bracket, rounds,
                   _match_players, _next_round_players, round_robin_matches,
                   winners_bracket, losers_bracket, results, tournament_winner,
                   completed, round_winners, round_num, winners_next_round,
                   losers_first_round, new_winners, new_losers,
                   losers_next_round, match, match2>>
    /\ UNCHANGED swissVars
    /\ UNCHANGED matchVars
    /\ UNCHANGED engineVars

\* The variables no single elimination step writes
notSingleElimination ==
    <<format, original_players, bracket, _next_round_players,
      round_robin_matches, winners_bracket, losers_bracket, round_num,
      winners_next_round, losers_first_round, new_winners, new_losers,
      losers_next_round, match, match2,
      opponents_faced, swiss_rounds, pairings,
      num_games, game_num, win_counts, last_game, match_result, mpc>>

\* _run_single_elimination: one pass of the loop over the round's matches
SingleEliminationMatch ==
    /\ tpc = "single_elimination"
    /\ match_index < Len(rounds[round_number])
    /\ match_index < Len(_match_players)
    /\ LET player1_t == _match_players[match_index + 1][1]
           player2_t == _match_players[match_index + 1][2]
           bots == rounds[round_number][match_index + 1]
       IN  \E m \in MatchRuns(bots[1], bots[2]) : \E coin \in BOOLEAN :
             /\ IF m.match_winner = m.player1
                THEN /\ entrants' = win_and_eliminate(entrants, player1_t, player2_t)
                     /\ round_winners' = Append(round_winners, player1_t)
                ELSE IF m.match_winner = m.player2
                THEN /\ entrants' = win_and_eliminate(entrants, player2_t, player1_t)
                     /\ round_winners' = Append(round_winners, player2_t)
                ELSE IF coin
                THEN /\ entrants' = draw_advance(entrants, player1_t, player2_t)
                     /\ round_winners' = Append(round_winners, player1_t)
                ELSE /\ entrants' = draw_advance(entrants, player2_t, player1_t)
                     /\ round_winners' = Append(round_winners, player2_t)
             /\ results' = Append(results, Result(round_number, m))
    /\ match_index' = match_index + 1
    /\ UNCHANGED <<rounds, _match_players, tournament_winner, completed, tpc,
                   round_number, current_winners>>
    /\ UNCHANGED notSingleElimination
    /\ UNCHANGED engineVars

\* _run_single_elimination after the matches of a round: the next round is
\* created from the winners, or the run returns and run_tournament completes
SingleEliminationRoundEnd ==
    /\ tpc = "single_elimination"
    /\ match_index = Len(rounds[round_number])
    /\ LET all_winners == current_winners \o round_winners
           next == _create_next_round(rounds, _match_players, all_winners)
       IN  IF Len(all_winners) > 1
           THEN /\ rounds' = next.rounds
                /\ _match_players' = next._match_players
                /\ current_winners' = <<>>
                /\ round_number' = round_number + 1
                /\ round_winners' = <<>>
                /\ match_index' = 0
                /\ IF round_number < Len(next.rounds)
                   THEN UNCHANGED <<tpc, completed, tournament_winner>>
                   ELSE /\ tpc' = "done"
                        /\ completed' = TRUE
                        /\ tournament_winner' = 0
           ELSE /\ tpc' = "done"
                /\ completed' = TRUE
                /\ tournament_winner' =
                      IF all_winners # <<>> THEN all_winners[1] ELSE 0
                /\ UNCHANGED <<rounds, _match_players, current_winners,
                               round_number, round_winners, match_index>>
    /\ UNCHANGED <<entrants, results>>
    /\ UNCHANGED notSingleElimination
    /\ UNCHANGED engineVars

\* The variables no round robin step writes
notRoundRobin ==
    <<format, original_players, bracket, rounds, _match_players,
      _next_round_players, round_robin_matches, winners_bracket,
      losers_bracket, round_number, current_winners, round_winners, round_num,
      winners_next_round, losers_first_round, new_winners, new_losers,
      losers_next_round, match, match2,
      opponents_faced, swiss_rounds, pairings,
      num_games, game_num, win_counts, last_game, match_result, mpc>>

\* _run_round_robin: one pass of the loop over round_robin_matches
RoundRobinMatch ==
    /\ tpc = "round_robin"
    /\ match_index < Len(round_robin_matches)
    /\ LET player1_t == round_robin_matches[match_index + 1][1]
           player2_t == round_robin_matches[match_index + 1][2]
           matches_per_round == original_players \div 2
       IN  \E m \in MatchRuns(player1_t, player2_t) :
             /\ entrants' =
                  IF m.match_winner = m.player1
                  THEN win(entrants, player1_t, player2_t)
                  ELSE IF m.match_winner = m.player2
                  THEN win(entrants, player2_t, player1_t)
                  ELSE draw(entrants, player1_t, player2_t)
             /\ results' = Append(results,
                              Result((match_index \div matches_per_round) + 1, m))
    /\ match_index' = match_index + 1
    /\ UNCHANGED <<tournament_winner, completed, tpc>>
    /\ UNCHANGED notRoundRobin
    /\ UNCHANGED engineVars

\* _run_round_robin after the last match: the head of the standings wins,
\* and run_tournament completes
RoundRobinEnd ==
    /\ tpc = "round_robin"
    /\ match_index = Len(round_robin_matches)
    /\ tournament_winner' = get_standings(entrants, original_players)[1]
    /\ completed' = TRUE
    /\ tpc' = "done"
    /\ UNCHANGED <<entrants, results, match_index>>
    /\ UNCHANGED notRoundRobin
    /\ UNCHANGED engineVars

\* The variables no double elimination step writes
notDoubleElimination ==
    <<format, original_players, bracket, rounds, _match_players,
      _next_round_players, round_robin_matches, winners_bracket, round_number,
      current_winners, round_winners,
      opponents_faced, swiss_rounds, pairings,
      num_games, game_num, win_counts, last_game, match_result, mpc>>

\* A loop head that leaves the while loop at once
LoopHeadLeaving(winners, losers) == "final"

\* Where _run_double_elimination goes at the head of its while loop
LoopHead(winners, losers) ==
    IF Len(winners) > 1 THEN "winners"
    ELSE IF Len(losers) > 1 THEN "losers"
    ELSE "final"

\* _run_double_elimination, winners bracket round 1: one pass of the loop
\* over the pairs of winners_bracket; a pair with a bye plays no match
WinnersFirstRoundPair ==
    /\ tpc = "winners_first"
    /\ match_index + 1 < Len(winners_bracket)
    /\ LET player1_t == winners_bracket[match_index + 1]
           player2_t == winners_bracket[match_index + 2]
       IN  IF IsBye(player1_t) \/ IsBye(player2_t)
           THEN LET winner_t == IF IsBye(player1_t) THEN player2_t ELSE player1_t
                    loser_t == IF IsBye(player1_t) THEN player1_t ELSE player2_t
                IN  /\ entrants' = win(entrants, winner_t, loser_t)
                    /\ losers_first_round' = Append(losers_first_round, loser_t)
                    /\ winners_next_round' = Append(winners_next_round, winner_t)
                    /\ UNCHANGED results
           ELSE \E m \in MatchRuns(player1_t, player2_t) :
                    LET winner_t == IF m.match_winner = m.player1
                                    THEN player1_t ELSE player2_t
                        loser_t == IF m.match_winner = m.player1
                                   THEN player2_t ELSE player1_t
                    IN  /\ entrants' = win(entrants, winner_t, loser_t)
                        /\ winners_next_round' = Append(winners_next_round, winner_t)
                        /\ losers_first_round' = Append(losers_first_round, loser_t)
                        /\ results' = Append(results, BracketResult(1, "winners", m))
    /\ match_index' = match_index + 2
    /\ UNCHANGED <<losers_bracket, tournament_winner, completed, tpc, round_num,
                   new_winners, new_losers, losers_next_round, match, match2>>
    /\ UNCHANGED notDoubleElimination
    /\ UNCHANGED engineVars

\* After round 1: the losers bracket starts, and the while loop is entered
WinnersFirstRoundEnd ==
    /\ tpc = "winners_first"
    /\ match_index + 1 >= Len(winners_bracket)
    /\ losers_bracket' = losers_first_round
    /\ round_num' = 2
    /\ tpc' = LoopHead(winners_next_round, losers_first_round)
    /\ match_index' = 0
    /\ new_winners' = <<>>
    /\ new_losers' = <<>>
    /\ losers_next_round' = <<>>
    /\ UNCHANGED <<entrants, results, tournament_winner, completed,
                   winners_next_round, losers_first_round, match, match2>>
    /\ UNCHANGED notDoubleElimination
    /\ UNCHANGED engineVars

\* A later winners bracket round: one pass of the loop over the pairs
WinnersRoundMatch ==
    /\ tpc = "winners"
    /\ match_index + 1 < Len(winners_next_round)
    /\ LET player1_t == winners_next_round[match_index + 1]
           player2_t == winners_next_round[match_index + 2]
       IN  \E m \in MatchRuns(player1_t, player2_t) :
              LET winner_t == IF m.match_winner = m.player1
                              THEN player1_t ELSE player2_t
                  loser_t == IF m.match_winner = m.player1
                             THEN player2_t ELSE player1_t
              IN  /\ entrants' = win(entrants, winner_t, loser_t)
                  /\ new_winners' = Append(new_winners, winner_t)
                  /\ new_losers' = Append(new_losers, loser_t)
                  /\ results' = Append(results,
                                   BracketResult(round_num, "winners", m))
    /\ match_index' = match_index + 2
    /\ UNCHANGED <<losers_bracket, tournament_winner, completed, tpc, round_num,
                   winners_next_round, losers_first_round, losers_next_round,
                   match, match2>>
    /\ UNCHANGED notDoubleElimination
    /\ UNCHANGED engineVars

\* After a winners bracket round: its losers join the losers bracket
WinnersRoundEnd ==
    /\ tpc = "winners"
    /\ match_index + 1 >= Len(winners_next_round)
    /\ winners_next_round' = new_winners
    /\ losers_bracket' = losers_bracket \o new_losers
    /\ IF Len(losers_bracket \o new_losers) > 1
       THEN /\ tpc' = "losers"
            /\ UNCHANGED round_num
       ELSE /\ tpc' = LoopHead(new_winners, losers_bracket \o new_losers)
            /\ round_num' = round_num + 1
    /\ match_index' = 0
    /\ new_winners' = <<>>
    /\ new_losers' = <<>>
    /\ losers_next_round' = <<>>
    /\ UNCHANGED <<entrants, results, tournament_winner, completed,
                   losers_first_round, match, match2>>
    /\ UNCHANGED notDoubleElimination
    /\ UNCHANGED engineVars

\* A losers bracket round: one pass of the loop over the pairs; the loser
\* of the match is eliminated
LosersRoundMatch ==
    /\ tpc = "losers"
    /\ match_index + 1 < Len(losers_bracket)
    /\ LET player1_t == losers_bracket[match_index + 1]
           player2_t == losers_bracket[match_index + 2]
       IN  \E m \in MatchRuns(player1_t, player2_t) :
              LET winner_t == IF m.match_winner = m.player1
                              THEN player1_t ELSE player2_t
                  loser_t == IF m.match_winner = m.player1
                             THEN player2_t ELSE player1_t
              IN  /\ entrants' = win_and_eliminate(entrants, winner_t, loser_t)
                  /\ losers_next_round' = Append(losers_next_round, winner_t)
                  /\ results' = Append(results,
                                   BracketResult(round_num, "losers", m))
    /\ match_index' = match_index + 2
    /\ UNCHANGED <<losers_bracket, tournament_winner, completed, tpc, round_num,
                   winners_next_round, losers_first_round, new_winners,
                   new_losers, match, match2>>
    /\ UNCHANGED notDoubleElimination
    /\ UNCHANGED engineVars

\* After a losers bracket round: its winners are the losers bracket
LosersRoundEnd ==
    /\ tpc = "losers"
    /\ match_index + 1 >= Len(losers_bracket)
    /\ losers_bracket' = losers_next_round
    /\ round_num' = round_num + 1
    /\ tpc' = LoopHead(winners_next_round, losers_next_round)
    /\ match_index' = 0
    /\ new_winners' = <<>>
    /\ new_losers' = <<>>
    /\ losers_next_round' = <<>>
    /\ UNCHANGED <<entrants, results, tournament_winner, completed,
                   winners_next_round, losers_first_round, match, match2>>
    /\ UNCHANGED notDoubleElimination
    /\ UNCHANGED engineVars

\* A grand final that crowns the losers bracket's survivor on its first win
GrandFinalWithoutReset ==
    /\ tpc = "final"
    /\ IF winners_next_round # <<>> /\ losers_bracket # <<>>
       THEN \E m \in MatchRuns(winners_next_round[1], losers_bracket[1]) :
              /\ match' = m
              /\ results' = Append(results, BracketResult(round_num, "final", m))
              /\ tournament_winner' = m.match_winner
              /\ completed' = TRUE
              /\ tpc' = "done"
              /\ entrants' =
                    IF m.match_winner = m.player1
                    THEN win(entrants, winners_next_round[1], losers_bracket[1])
                    ELSE win(entrants, losers_bracket[1], winners_next_round[1])
       ELSE /\ tournament_winner' = 0
            /\ completed' = TRUE
            /\ tpc' = "done"
            /\ UNCHANGED <<entrants, results, match>>
    /\ UNCHANGED <<losers_bracket, match_index, round_num, winners_next_round,
                   losers_first_round, new_winners, new_losers,
                   losers_next_round, match2>>
    /\ UNCHANGED notDoubleElimination
    /\ UNCHANGED engineVars

\* The grand final: the winners bracket's survivor against the losers
\* bracket's; the former's win ends the tournament, the latter's calls for a
\* second match
GrandFinal ==
    /\ tpc = "final"
    /\ IF winners_next_round # <<>> /\ losers_bracket # <<>>
       THEN LET winners_winner == winners_next_round[1]
                losers_winner == losers_bracket[1]
            IN  \E m \in MatchRuns(winners_winner, losers_winner) :
                  /\ match' = m
                  /\ IF m.match_winner = m.player1
                     THEN /\ entrants' = win(entrants, winners_winner, losers_winner)
                          /\ results' = Append(results,
                                           BracketResult(round_num, "final", m))
                          /\ tournament_winner' = winners_winner
                          /\ completed' = TRUE
                          /\ tpc' = "done"
                     ELSE /\ entrants' = win(entrants, losers_winner, winners_winner)
                          /\ tpc' = "final2"
                          /\ UNCHANGED <<results, tournament_winner, completed>>
       ELSE /\ tournament_winner' = 0
            /\ completed' = TRUE
            /\ tpc' = "done"
            /\ UNCHANGED <<entrants, results, match>>
    /\ UNCHANGED <<losers_bracket, match_index, round_num, winners_next_round,
                   losers_first_round, new_winners, new_losers,
                   losers_next_round, match2>>
    /\ UNCHANGED notDoubleElimination
    /\ UNCHANGED engineVars

\* The second grand final match; the first match is the one appended to
\* results
GrandFinalSecondMatch ==
    /\ tpc = "final2"
    /\ LET winners_winner == winners_next_round[1]
           losers_winner == losers_bracket[1]
       IN  \E m \in MatchRuns(winners_winner, losers_winner) :
             /\ match2' = m
             /\ IF m.match_winner = m.player1
                THEN /\ entrants' = win(entrants, winners_winner, losers_winner)
                     /\ tournament_winner' = winners_winner
                ELSE /\ entrants' = win(entrants, losers_winner, winners_winner)
                     /\ tournament_winner' = losers_winner
    /\ results' = Append(results, BracketResult(round_num, "final", match))
    /\ completed' = TRUE
    /\ tpc' = "done"
    /\ UNCHANGED <<losers_bracket, match_index, round_num, winners_next_round,
                   losers_first_round, new_winners, new_losers,
                   losers_next_round, match>>
    /\ UNCHANGED notDoubleElimination
    /\ UNCHANGED engineVars

\* ------------------------------------------------------------- Swiss

\* _create_swiss_bracket for n players that the shuffle leaves in the order
\* active_players
SwissBracket(n, active_players) ==
    /\ Constructed("swiss", n)
    /\ bracket = active_players
    /\ entrants = [p \in SeqSet(active_players) |-> TournamentPlayer]
    /\ rounds = <<>>
    /\ _match_players = <<>>
    /\ _next_round_players = <<>>
    /\ round_robin_matches = <<>>
    /\ winners_bracket = <<>>

\* UNOTournament(players, format=SWISS)
_create_swiss_bracket ==
    \E n \in 2..MaxPlayersSW : \E active_players \in Shuffles(n) :
        SwissBracket(n, active_players)

\* UNOTournament(players, format=SWISS) with RankedPlayers players, for the
\* one shuffle that leaves them in their order (the bracket of a Swiss
\* tournament is never read)
_create_ranked_swiss_bracket ==
    SwissBracket(RankedPlayers, [p \in 1..RankedPlayers |-> p])

\* UNOTournament(players, format=SWISS) with an even number of players, two
\* for each of SwissTables tables, for the shuffle that leaves them in order
_create_even_swiss_bracket ==
    SwissBracket(2 * SwissTables, [p \in 1..(2 * SwissTables) |-> p])

\* TournamentPlayer.match_score, doubled: wins + 0.5 * draws
match_score(tp) == 2 * tp.wins + tp.draws

\* num_rounds = min(5, len(self.players))
num_rounds == IF original_players < 5 THEN original_players ELSE 5

\* The orders sorted() can give self.players: descending match score, the
\* random component of the key deciding among equal scores
SortedPlayers(e, n) ==
    {s \in Permutations(1..n) :
        \A a, b \in 1..n : a < b => match_score(e[s[a]]) >= match_score(e[s[b]])}

\* A history test that finds no pair of players to have met
never_faced(faced, player1, player2) == FALSE

\* Whether the two players have already faced each other
already_faced(faced, player1, player2) ==
    player2 \in faced[player1] \/ player1 \in faced[player2]

\* The indices the inner loop may still pair with position a
Candidates(sorted_players, faced, paired_indices, a) ==
    {b \in (a + 1)..Len(sorted_players) :
        /\ b \notin paired_indices
        /\ ~already_faced(faced, sorted_players[a], sorted_players[b])}

\* The smallest index of a non-empty set of indices
First(S) == CHOOSE b \in S : \A c \in S : b <= c

\* The pairing loops of _run_swiss from position a on: every unpaired player
\* takes the first later unpaired player it has not faced, or stays unpaired
RECURSIVE PairFrom(_, _, _, _, _)
PairFrom(sorted_players, faced, paired_indices, a, acc) ==
    IF a > Len(sorted_players) THEN acc
    ELSE IF a \in paired_indices
         \/ Candidates(sorted_players, faced, paired_indices, a) = {}
    THEN PairFrom(sorted_players, faced, paired_indices, a + 1, acc)
    ELSE LET b == First(Candidates(sorted_players, faced, paired_indices, a))
         IN  PairFrom(sorted_players, faced, paired_indices \cup {a, b}, a + 1,
                      Append(acc, <<sorted_players[a], sorted_players[b]>>))

\* The variables no Swiss step writes
notSwiss ==
    <<format, original_players, bracket, rounds, _match_players,
      _next_round_players, round_robin_matches, winners_bracket,
      losers_bracket, round_number, current_winners, round_winners,
      winners_next_round, losers_first_round, new_winners, new_losers,
      losers_next_round, match, match2,
      num_games, game_num, win_counts, last_game, match_result, mpc>>

\* The two orders of SortedPlayers in which all players of equal score stand
\* by ascending id, or all by descending id
IdOrders(e, n) ==
    {s \in SortedPlayers(e, n) :
        \/ \A a, b \in 1..n :
              (a < b /\ match_score(e[s[a]]) = match_score(e[s[b]])) => s[a] < s[b]
        \/ \A a, b \in 1..n :
              (a < b /\ match_score(e[s[a]]) = match_score(e[s[b]])) => s[a] > s[b]}

\* _run_swiss, the head of a round: the players are sorted, in one of the
\* orders the sort can give when by_id is false, and paired
SwissPairingSorted(by_id) ==
    /\ tpc = "swiss"
    /\ round_num < num_rounds
    /\ \E sorted_players \in IF by_id THEN IdOrders(entrants, original_players)
                              ELSE SortedPlayers(entrants, original_players) :
          pairings' = PairFrom(sorted_players, opponents_faced, {}, 1, <<>>)
    /\ round_num' = round_num + 1
    /\ match_index' = 0
    /\ tpc' = "swiss_matches"
    /\ UNCHANGED <<entrants, results, tournament_winner, completed,
                   opponents_faced, swiss_rounds>>
    /\ UNCHANGED notSwiss
    /\ UNCHANGED engineVars

SwissPairing == SwissPairingSorted(FALSE)

SwissPairingById == SwissPairingSorted(TRUE)

\* _run_swiss: one pass of the loop over the pairings of the round, the
\* match ending as the bots' strengths allow (ranked) or in any way
SwissMatchEnding(ranked) ==
    /\ tpc = "swiss_matches"
    /\ match_index < Len(pairings)
    /\ LET player1_t == pairings[match_index + 1][1]
           player2_t == pairings[match_index + 1][2]
       IN  /\ \E m \in IF ranked THEN RankedRuns(player1_t, player2_t)
                       ELSE MatchRuns(player1_t, player2_t) :
                /\ entrants' =
                     IF m.match_winner = m.player1
                     THEN win(entrants, player1_t, player2_t)
                     ELSE IF m.match_winner = m.player2
                     THEN win(entrants, player2_t, player1_t)
                     ELSE draw(entrants, player1_t, player2_t)
                /\ results' = Append(results, Result(round_num, m))
           /\ opponents_faced' =
                [opponents_faced EXCEPT ![player1_t] = @ \cup {player2_t},
                                        ![player2_t] = @ \cup {player1_t}]
    /\ match_index' = match_index + 1
    /\ UNCHANGED <<tournament_winner, completed, tpc, round_num, swiss_rounds,
                   pairings>>
    /\ UNCHANGED notSwiss
    /\ UNCHANGED engineVars

\* A Swiss match between any two bots
SwissMatch == SwissMatchEnding(FALSE)

\* A Swiss match between bots ranked by strength
SwissMatchRanked == SwissMatchEnding(TRUE)

RECURSIVE SetSum(_, _)
SetSum(f, S) ==
    IF S = {} THEN 0
    ELSE LET x == CHOOSE y \in S : TRUE IN f[x] + SetSum(f, S \ {x})

\* A Buchholz score that sums the match scores of every player
buchholz_of_all(e, faced, p) ==
    SetSum([q \in DOMAIN faced |-> match_score(e[q])], DOMAIN faced)

\* buchholz_score, doubled: the sum of the match scores of the opponents faced
buchholz_score(e, faced, p) ==
    SetSum([q \in DOMAIN faced |-> match_score(e[q])], faced[p])

\* Whether p stands above q at the end of a Swiss tournament: points, then
\* Buchholz, then wins
SwissAbove(e, faced, p, q) ==
    \/ e[p].points > e[q].points
    \/ /\ e[p].points = e[q].points
       /\ buchholz_score(e, faced, p) > buchholz_score(e, faced, q)
    \/ /\ e[p].points = e[q].points
       /\ buchholz_score(e, faced, p) = buchholz_score(e, faced, q)
       /\ e[p].wins > e[q].wins

\* standings[0] of _run_swiss: the first of self.players nobody stands above
SwissFirst(e, faced, n) ==
    CHOOSE p \in 1..n : \A q \in (1..n) \ {p} :
        SwissAbove(e, faced, p, q) \/ (~SwissAbove(e, faced, q, p) /\ p < q)

\* Whether p stands above q in get_standings of a Swiss tournament: points,
\* then Buchholz, then wins, then fewer losses
SwissStandingAbove(e, faced, p, q) ==
    \/ SwissAbove(e, faced, p, q)
    \/ /\ e[p].points = e[q].points
       /\ buchholz_score(e, faced, p) = buchholz_score(e, faced, q)
       /\ e[p].wins = e[q].wins
       /\ e[p].losses < e[q].losses

\* get_standings (Swiss): self.players in a stable descending sort
RECURSIVE get_standings_swiss(_, _, _)
get_standings_swiss(e, faced, S) ==
    IF S = {} THEN <<>>
    ELSE LET p == CHOOSE x \in S : \A y \in S \ {x} :
                      \/ SwissStandingAbove(e, faced, x, y)
                      \/ ~SwissStandingAbove(e, faced, y, x) /\ x < y
         IN  <<p>> \o get_standings_swiss(e, faced, S \ {p})

\* _run_swiss after the matches of a round: the round is recorded; after the
\* last round the standings name the winner and run_tournament completes
SwissRoundEnd ==
    /\ tpc = "swiss_matches"
    /\ match_index = Len(pairings)
    /\ swiss_rounds' = Append(swiss_rounds, pairings)
    /\ IF round_num < num_rounds
       THEN /\ tpc' = "swiss"
            /\ UNCHANGED <<tournament_winner, completed>>
       ELSE /\ tpc' = "done"
            /\ completed' = TRUE
            /\ tournament_winner' =
                  SwissFirst(entrants, opponents_faced, original_players)
    /\ UNCHANGED <<entrants, results, match_index, round_num, opponents_faced,
                   pairings>>
    /\ UNCHANGED notSwiss
    /\ UNCHANGED engineVars

vars == <<engineVars, tournamentVars>>

\* ------------------------------------------------------------- specifications

\* A game of the engine, as auto_play_game runs it
Init == EngineInit /\ NoTournament

Next == add_player \/ initialize_game \/ PlayTurn \/ DetermineWinner

Spec == Init /\ [][Next]_vars

\* A game as the simulation runs it (endless_reshuffle=True); auto_play_game
\* keeps calling play_turn while the loop condition holds
InitSimulation == SimulationEngine /\ NoTournament

FairSpec == InitSimulation /\ [][Next]_vars /\ WF_vars(Next)

\* A single elimination tournament
InitSE == SimulationEngine /\ _create_single_elimination_bracket

NextSE == run_tournament \/ SingleEliminationMatch \/ SingleEliminationRoundEnd

SpecSE == InitSE /\ [][NextSE]_vars

\* A round robin tournament
InitRR == SimulationEngine /\ _create_round_robin_bracket

NextRR == run_tournament \/ RoundRobinMatch \/ RoundRobinEnd

SpecRR == InitRR /\ [][NextRR]_vars

\* A double elimination tournament
InitDE == SimulationEngine /\ _create_double_elimination_bracket

NextDE ==
    \/ run_tournament
    \/ WinnersFirstRoundPair
    \/ WinnersFirstRoundEnd
    \/ WinnersRoundMatch
    \/ WinnersRoundEnd
    \/ LosersRoundMatch
    \/ LosersRoundEnd
    \/ GrandFinal
    \/ GrandFinalSecondMatch

SpecDE == InitDE /\ [][NextDE]_vars

\* A double elimination tournament that run_tournament keeps running: every
\* loop pass is followed by the next one, and every match returns
FairSpecDE == InitDE /\ [][NextDE]_vars /\ WF_vars(NextDE)

\* A match run on its own
InitMatch == SimulationEngine /\ NoBracket /\ MatchResult

NextMatch == PlayGame \/ FinishMatch

SpecMatch == InitMatch /\ [][NextMatch]_vars

\* The setup calls of a client: add_player and initialize_game
NextSetup == add_player_to_roster \/ add_player_raises \/ initialize_game

SpecSetup == Init /\ [][NextSetup]_vars

\* A game of TurnOrderSeats players, from its deal to its winner
InitSeats == SeatedEngine /\ NoTournament

NextSeats == initialize_game \/ PlayTurn \/ DetermineWinner

SpecSeats == InitSeats /\ [][NextSeats]_vars

\* A Swiss tournament
InitSW == SimulationEngine /\ _create_swiss_bracket

NextSW == run_tournament \/ SwissPairing \/ SwissMatch \/ SwissRoundEnd

SpecSW == InitSW /\ [][NextSW]_vars

\* A Swiss tournament of RankedPlayers bots ranked by strength: the sort of
\* every round may order equal scores in any way, and every match is won
\* outright by the stronger bot
InitRanked == SimulationEngine /\ _create_ranked_swiss_bracket

NextRanked ==
    run_tournament \/ SwissPairing \/ SwissMatchRanked \/ SwissRoundEnd

SpecRanked == InitRanked /\ [][NextRanked]_vars

\* A Swiss tournament of 2 * SwissTables bots ranked by strength, for the
\* runs in which the sort of a round puts the players of equal score in the
\* order of their ids, ascending or descending
InitEven == SimulationEngine /\ _create_even_swiss_bracket

NextEven ==
    run_tournament \/ SwissPairingById \/ SwissMatchRanked \/ SwissRoundEnd

SpecEven == InitEven /\ [][NextEven]_vars

\* A tournament of any of the four formats
InitFormats ==
    /\ SimulationEngine
    /\ \/ _create_single_elimination_bracket
       \/ _create_round_robin_bracket
       \/ _create_double_elimination_bracket
       \/ _create_swiss_bracket

NextFormats == NextSE \/ NextRR \/ NextDE \/ NextSW

SpecFormats == InitFormats /\ [][NextFormats]_vars

\* ------------------------------------------------------------- engine claims

Started == game_state \in {"IN_PROGRESS", "ROUND_OVER"}

RECURSIVE AllHands(_)
AllHands(hs) ==
    IF hs = <<>> THEN EmptyHand ELSE Plus(Head(hs), AllHands(Tail(hs)))

\* Every card value, counted over the deck, the hands and the discard pile
CardsInGame == Plus(deck, Plus(AllHands(hands), SeqCount(discard_pile)))

ActingHand == hands[current_player_index + 1]

TurnStep == turn_count' = turn_count + 1

\* C1: once the game is dealt, the deck, the hands and the discard pile
\* together hold every card of the deck dealt from exactly as often as that
\* deck did: the total is constant and no card is in two places.
CardConservation == Started => CardsInGame = FreshDeck

\* C1 witness: a played card lies on a pile that a reshuffle has cut to its
\* top card, and the deck holds the cards shuffled back
CardConservationWitness ==
    /\ game_state = "IN_PROGRESS"
    /\ Len(discard_pile) = 1
    /\ is_wild(discard_pile[1]) \/ is_action_card(discard_pile[1])
    /\ Size(deck) > 0

PlayableIsExact ==
    \A i \in 1..Len(hands) : \A c \in Cards :
        get_playable_cards(Game, i - 1)[c] =
            IF can_play_on(c, Last(discard_pile), current_color)
            THEN hands[i][c] ELSE 0

\* C3: a card that a turn puts on the discard pile, named by the agent or
\* just drawn, satisfies the play predicate against the top card and the
\* active colour the turn started with and was held or drawn by the acting
\* player; get_playable_cards is exactly the playable part of the hand.
Legality ==
    /\ [](game_state = "IN_PROGRESS" => PlayableIsExact)
    /\ [][(TurnStep /\ last_turn'.branch \in {"played", "drew_played"}) =>
            /\ can_play_on(Last(discard_pile'), Last(discard_pile), current_color)
            /\ last_turn'.branch = "played" =>
                 /\ Last(discard_pile') = last_turn'.card
                 /\ ActingHand[last_turn'.card] > 0]_vars

\* C3 witness: a drawn card was played at once
LegalityWitness ==
    /\ last_turn.branch = "drew_played"
    /\ is_action_card(Last(discard_pile))
    /\ Len(discard_pile) > 1

\* Neither the deck nor a reshuffle can supply a card
Exhausted ==
    /\ Size(deck) = 0
    /\ Len(discard_pile) <= 1 \/ ~endless_reshuffle

\* The agent of this step named a card that play_card refuses
RefusedPlay ==
    /\ TurnStep
    /\ last_turn'.card # None
    /\ \/ ActingHand[last_turn'.card] = 0
       \/ ~can_play_on(last_turn'.card, Last(discard_pile), current_color)

\* C4: a play of a card that is not held or not legal leaves the top card,
\* the colour and the direction alone; when a card can be supplied the
\* acting hand grows by that one card, no other hand changes, the call
\* returns True and the turn passes to the next seat in the direction;
\* when none can, the hands stay and the round is over.
IllegalPlayForcesDraw ==
    [][RefusedPlay =>
        /\ Last(discard_pile') = Last(discard_pile)
        /\ current_color' = current_color
        /\ game_direction' = game_direction
        /\ IF ~Exhausted
           THEN /\ Size(hands'[current_player_index + 1]) = Size(ActingHand) + 1
                /\ \A i \in 1..Len(hands) :
                     i # current_player_index + 1 => hands'[i] = hands[i]
                /\ last_turn'.ret
                /\ game_state' = "IN_PROGRESS"
                /\ current_player_index' =
                     (current_player_index + game_direction) % Len(players)
           ELSE /\ hands' = hands
                /\ ~last_turn'.ret
                /\ game_state' = "ROUND_OVER"]_vars

\* C4 witness: with the direction reversed, a player named a card it holds
\* but may not play, was given a card from the deck, and the turn passed on
IllegalPlayWitness ==
    /\ last_turn.branch = "refused_drew"
    /\ last_turn.ret
    /\ game_direction = -1
    /\ hands[((current_player_index + 1) % Len(players)) + 1][last_turn.card] > 0

\* C5 (the claim as stated): when the game ends with no empty hand, the
\* reported winner has the lowest hand score and, among the players with
\* that score, the fewest cards.
ForcedScoringWinner ==
    (pc = "done" /\ \A i \in 1..Len(hands) : Size(hands[i]) > 0) =>
        /\ winner \in 1..Len(hands)
        /\ \A j \in 1..Len(hands) :
             /\ calculate_hand_score(hands[winner]) <= calculate_hand_score(hands[j])
             /\ calculate_hand_score(hands[j]) = calculate_hand_score(hands[winner])
                  => Size(hands[winner]) <= Size(hands[j])

\* C16: when the agent draws, or names a card that play_card refuses, and
\* the deck is empty while the discard pile holds at most its top card or
\* reshuffling is disabled, play_turn returns False with the state ROUND_OVER
\* (it raises nothing: the game goes on to the scoring), and the hands, the
\* deck and the discard pile are as they were.
CardExhaustionEndsRound ==
    [][(TurnStep /\ Exhausted /\ (last_turn'.draw_card \/ RefusedPlay)) =>
          /\ game_state' = "ROUND_OVER"
          /\ ~last_turn'.ret
          /\ pc' = "scoring"
          /\ hands' = hands
          /\ deck' = deck
          /\ discard_pile' = discard_pile]_vars

\* C16 witness: with reshuffling disabled and played cards in the pile, a
\* player named a card it may not play, the deck was empty, and the round is
\* over
CardExhaustionWitness ==
    /\ last_turn.branch = "refused_no_card"
    /\ ~endless_reshuffle
    /\ Len(discard_pile) > 1
    /\ game_state = "ROUND_OVER"
    /\ pc = "scoring"

\* A turn of this state asks draw_card for a card while the deck is empty and
\* reshuffling is enabled, so that draw_card calls _reshuffle_discard_pile
ReshuffleRequested ==
    /\ TurnStep
    /\ Size(deck) = 0
    /\ endless_reshuffle
    /\ last_turn'.draw_card \/ RefusedPlay

\* C17: _reshuffle_discard_pile on a discard pile of 0 or 1 cards raises and
\* returns the deck and the pile as they were; a turn that requests such a
\* reshuffle ends on the failed draw with both unchanged.
ReshuffleRefusal ==
    [][Len(discard_pile) <= 1 =>
          /\ ~_reshuffle_discard_pile(Game).ok
          /\ _reshuffle_discard_pile(Game).g.deck = deck
          /\ _reshuffle_discard_pile(Game).g.discard_pile = discard_pile
          /\ ReshuffleRequested =>
                /\ last_turn'.branch \in {"draw_failed", "refused_no_card"}
                /\ deck' = deck
                /\ discard_pile' = discard_pile]_vars

\* C17 witness: with reshuffling enabled a draw found the deck empty and only
\* the top card on the pile, and the turn ended on the refused reshuffle
ReshuffleRefusalWitness ==
    /\ last_turn.branch = "draw_failed"
    /\ endless_reshuffle
    /\ Size(deck) = 0
    /\ Len(discard_pile) = 1

\* How many cards of value c lie under the top card of the discard pile
UnderTop(c) ==
    Cardinality({i \in 1..(Len(discard_pile) - 1) : discard_pile[i] = c})

\* C18: _reshuffle_discard_pile on a pile of two or more cards succeeds,
\* leaves exactly the former top card on the pile, gives the deck exactly
\* the cards that lay under it, and changes neither the active colour nor a
\* hand; a turn that draws through such a reshuffle without playing the drawn
\* card leaves the pile as its former top card, the colour as it was, and the
\* cards from under the top in the deck and the drawn card's hand.
ReshuffleKeepsTop ==
    [][Len(discard_pile) > 1 =>
          /\ _reshuffle_discard_pile(Game).ok
          /\ _reshuffle_discard_pile(Game).g.discard_pile =
                <<discard_pile[Len(discard_pile)]>>
          /\ _reshuffle_discard_pile(Game).g.current_color = current_color
          /\ _reshuffle_discard_pile(Game).g.hands = hands
          /\ \A c \in Cards :
                _reshuffle_discard_pile(Game).g.deck[c] = deck[c] + UnderTop(c)
          /\ ReshuffleRequested =>
                /\ last_turn'.branch \in {"drew", "drew_played", "refused_drew"}
                /\ last_turn'.branch # "drew_played" =>
                      /\ discard_pile' = <<discard_pile[Len(discard_pile)]>>
                      /\ current_color' = current_color
                      /\ \A c \in Cards :
                            deck'[c] + AllHands(hands')[c] =
                                AllHands(hands)[c] + UnderTop(c)]_vars

\* C18 witness: a refused play drew from a deck that a reshuffle had just
\* refilled; the pile is down to a played card and the deck holds the rest
ReshuffleKeepsTopWitness ==
    /\ last_turn.branch = "refused_drew"
    /\ endless_reshuffle
    /\ Len(discard_pile) = 1
    /\ is_action_card(discard_pile[1])
    /\ Size(deck) > 0

\* play_turn is called with the turn counter at the ceiling
AtCeiling ==
    /\ pc = "loop"
    /\ game_state = "IN_PROGRESS"
    /\ turn_count >= max_turns

\* C19: turn_count never exceeds max_turns, and a play_turn call made with
\* turn_count at the ceiling takes no action from an agent, leaves the hands,
\* the deck, the discard pile and the counter as they were, sets the state to
\* ROUND_OVER and returns False.
TurnCeiling ==
    [][/\ turn_count <= max_turns
       /\ turn_count' <= max_turns
       /\ AtCeiling =>
             /\ last_turn'.branch = "ceiling"
             /\ ~last_turn'.draw_card
             /\ last_turn'.card = None
             /\ hands' = hands
             /\ deck' = deck
             /\ discard_pile' = discard_pile
             /\ turn_count' = turn_count
             /\ game_state' = "ROUND_OVER"
             /\ ~last_turn'.ret
             /\ pc' = "scoring"]_vars

\* C19 witness: the ceiling stopped a game in which every player still
\* holds cards
TurnCeilingWitness ==
    /\ last_turn.branch = "ceiling"
    /\ pc = "scoring"
    /\ turn_count = max_turns
    /\ \A i \in 1..Len(hands) : Size(hands[i]) > 0

\* C20: a turn after which the acting player holds no card ends with the
\* state ROUND_OVER and play_turn returning False, in that same turn, and no
\* other hand is empty; auto_play_game then returns the player whose hand is
\* empty.
WinDetection ==
    [][/\ TurnStep =>
             /\ \A i \in 1..Len(hands) :
                   Size(hands'[i]) = 0 => i = current_player_index + 1
             /\ Size(hands'[current_player_index + 1]) = 0 =>
                   /\ game_state' = "ROUND_OVER"
                   /\ ~last_turn'.ret
                   /\ pc' = "scoring"
       /\ (pc = "scoring" /\ \E i \in 1..Len(hands) : Size(hands[i]) = 0) =>
             /\ pc' = "done"
             /\ \A i \in 1..Len(hands) :
                   Size(hands[i]) = 0 => winner' = players[i]]_vars

\* C20 witness: a player went out on a SKIP, which moved the turn on before
\* the winner check, and auto_play_game returned that player
WinDetectionWitness ==
    /\ pc = "done"
    /\ last_turn.branch = "played"
    /\ CardLabel(last_turn.card) = "SKIP"
    /\ winner # 0
    /\ Size(hands[winner]) = 0

\* A turn of this step put a card on the discard pile
PlayedStep ==
    /\ TurnStep
    /\ last_turn'.branch \in {"played", "drew_played"}

\* C21 (the claim as stated): after a turn that puts a card on the discard
\* pile, the active colour is the colour the agent named when the card is a
\* wild, and the card's own colour when it is not, whatever colour the agent
\* named with it.
ActiveColorUpdate ==
    [][PlayedStep =>
          IF is_wild(Last(discard_pile'))
          THEN last_turn'.new_color # None =>
                  current_color' = last_turn'.new_color
          ELSE current_color' = CardColor(Last(discard_pile'))]_vars

\* C22 (the claim as stated): a turn that puts a REVERSE on the discard pile
\* flips the direction, and a turn that puts a SKIP on it moves the turn
\* pointer one step more than the turn's own advance, whether the agent named
\* the card or it was drawn and played at once.
EffectsOnEveryPlay ==
    [][PlayedStep =>
          /\ CardLabel(Last(discard_pile')) = "REVERSE" =>
                game_direction' = -game_direction
          /\ CardLabel(Last(discard_pile')) = "SKIP" =>
                current_player_index' =
                   (current_player_index
                      + (IF last_turn'.ret THEN 2 ELSE 1) * game_direction)
                   % Len(players)]_vars

\* The draw a card lays on the next player (the draw_count of play_turn)
draw_count(card) ==
    IF CardLabel(card) = "DRAW_TWO" THEN 2
    ELSE IF CardLabel(card) = "WILD_DRAW_FOUR" THEN 4
    ELSE 0

\* The last turn put a DRAW_TWO or WILD_DRAW_FOUR on the pile and passed the
\* turn on, and the player it passed to now takes a turn that the game
\* survives
TurnAfterDrawCard ==
    /\ last_turn.branch \in {"played", "drew_played"}
    /\ last_turn.ret
    /\ draw_count(Last(discard_pile)) > 0
    /\ TurnStep
    /\ last_turn'.ret

\* C23 (the claim as stated): the player next in turn after a DRAW_TWO or
\* WILD_DRAW_FOUR has received the 2 or 4 cards by the time its own turn is
\* over: its hand has grown by that many cards, less the one card it may
\* have played itself.  (The play itself hands out no card:
\* CardsMoveOnlyToActor.)
ForcedDrawDelivered ==
    [][TurnAfterDrawCard =>
          Size(hands'[current_player_index + 1]) >=
             Size(ActingHand) + draw_count(Last(discard_pile)) - 1]_vars

\* No turn changes the hand of a player other than the acting one
CardsMoveOnlyToActor ==
    [][TurnStep =>
          \A i \in 1..Len(hands) :
             i # current_player_index + 1 => hands'[i] = hands[i]]_vars

\* C24: a turn that does not end the game passes the turn from seat i, with
\* direction d before the turn, to seat (i + d) mod n after a draw, a forced
\* draw or an ordinary card, to (i + 2d) mod n after the agent plays a SKIP
\* and to (i - d) mod n after the agent plays a REVERSE; once the game is
\* dealt the index is a seat, 0..n-1.
TurnOrder ==
    [][/\ Started => current_player_index \in 0..(Len(players) - 1)
       /\ (TurnStep /\ last_turn'.ret) =>
             current_player_index' =
                (current_player_index
                   + game_direction *
                       (IF last_turn'.branch # "played" THEN 1
                        ELSE IF CardLabel(last_turn'.card) = "SKIP" THEN 2
                        ELSE IF CardLabel(last_turn'.card) = "REVERSE" THEN -1
                        ELSE 1))
                % Len(players)]_vars

\* C24 witness: among three players the agent of seat 0 played a REVERSE and
\* the turn went to seat 2
TurnOrderWitness ==
    /\ Len(players) = 3
    /\ last_turn.branch = "played"
    /\ CardLabel(last_turn.card) = "REVERSE"
    /\ last_turn.ret
    /\ game_direction = -1
    /\ current_player_index = 2
    /\ turn_count = 1

\* The action of an agent that chooses to draw
DrawAct == [draw_card |-> TRUE, card |-> None, new_color |-> None]

\* The cards of value c a draw can take: those of the deck, or, when the deck
\* is empty, those under the top of the discard pile
Drawable(c) == IF Size(deck) > 0 THEN deck[c] ELSE UnderTop(c)

\* The discard pile a draw leaves behind when it plays nothing
PileAfterDraw ==
    IF Size(deck) > 0 THEN discard_pile ELSE <<discard_pile[Len(discard_pile)]>>

\* A play_turn call that will act and can be given a card
CanTakeTurn ==
    /\ pc = "loop"
    /\ game_state = "IN_PROGRESS"
    /\ turn_count < max_turns
    /\ ~Exhausted

InitializeSucceeds == pc = "setup" /\ pc' = "loop"

SetupErrors ==
    [][/\ (pc = "setup" /\ Len(players) < 2 /\ pc' # "setup") =>
             /\ pc' = "raised"
             /\ game_state' = "WAITING_FOR_PLAYERS"
             /\ deck' = FreshDeck
             /\ discard_pile' = <<>>
             /\ \A i \in 1..Len(hands') : hands'[i] = EmptyHand
             /\ players' = players
             /\ scores' = scores
       /\ (game_state # "WAITING_FOR_PLAYERS" \/ Len(players) >= 10) =>
             /\ players' = players
             /\ scores' = scores
       /\ pc' = "add_player_raised" =>
             /\ game_state # "WAITING_FOR_PLAYERS" \/ Len(players) >= 10
             /\ players' = players
             /\ scores' = scores
             /\ game_state' = game_state]_vars

\* C27 witness: add_player was refused with ten players seated and no game
\* started
SetupErrorsWitness ==
    /\ pc = "add_player_raised"
    /\ Len(players) = 10
    /\ Len(scores) = 10
    /\ game_state = "WAITING_FOR_PLAYERS"

\* C35 (the claim as stated): in every turn played below the turn ceiling
\* the acting agent has a card moved from its hand to the discard pile or
\* receives a card from the deck, or the round ends; no turn passes to the
\* next player with the deck, the hands and the discard pile all unchanged.
\* (A card that is drawn and played at once leaves the hand as large as it
\* was.)
EveryTurnActs ==
    [][(TurnStep /\ game_state = "IN_PROGRESS") =>
          \/ game_state' = "ROUND_OVER"
          \/ /\ Size(hands'[current_player_index + 1]) = Size(ActingHand) - 1
             /\ Len(discard_pile') = Len(discard_pile) + 1
          \/ Size(hands'[current_player_index + 1]) = Size(ActingHand) + 1
          \/ last_turn'.branch = "drew_played"]_vars

\* The seats whose hand is empty
EmptyHanded == {i \in 1..Len(hands) : Size(hands[i]) = 0}

\* C36: once the game is dealt, every hand is non-empty at every turn
\* boundary in state IN_PROGRESS; at most one player ever has an empty hand,
\* and when one does the state is ROUND_OVER.
NoEmptyHandInPlay ==
    Started =>
        /\ game_state = "IN_PROGRESS" => EmptyHanded = {}
        /\ Cardinality(EmptyHanded) <= 1
        /\ EmptyHanded # {} => game_state = "ROUND_OVER"

\* C36 witness: the second seat has played its last card and the round is over
NoEmptyHandWitness ==
    /\ game_state = "ROUND_OVER"
    /\ EmptyHanded = {2}
    /\ last_turn.branch = "played"
    /\ turn_count > 1

\* ------------------------------------------------------------- tournament claims

\* The two players of a recorded match
Parties(r) == {r.player1, r.player2}

\* The recorded matches p lost
MatchesLost(p) ==
    Cardinality({k \in DOMAIN results :
                    p \in Parties(results[k]) /\ results[k].winner # p})

RealPlayers == 1..original_players

\* C6 (the claim as stated): when a match ends with equal game-win counts,
\* one of its two players is still named its winner, and the standings
\* record a draw: both players' draws grow by 1 and both players' points
\* grow by 1, not by the 3 of a win.
TieRecordedAsDraw ==
    [][(Len(results') = Len(results) + 1 /\ Last(results').is_draw) =>
          /\ Last(results').winner \in Parties(Last(results'))
          /\ \A p \in Parties(Last(results')) :
                /\ entrants'[p].draws = entrants[p].draws + 1
                /\ entrants'[p].points = entrants[p].points + 1]_vars

\* C7 (the claim as stated): in single elimination every bye is paired with
\* a real player, who advances with no match played, and no bye advances to
\* a later round or takes part in a match.
ByesNeverPlay ==
    format = "single_elimination" =>
        /\ \A k \in 1..(Len(bracket) \div 2) :
              LET a == bracket[2 * k - 1]
                  b == bracket[2 * k]
              IN  (IsBye(a) \/ IsBye(b)) =>
                    /\ ~IsBye(a) \/ ~IsBye(b)
                    /\ \E p \in {a, b} :
                          /\ ~IsBye(p)
                          /\ p \in SeqSet(_next_round_players)
                          /\ \A j \in DOMAIN results :
                                results[j].round = 1 => p \notin Parties(results[j])
        /\ \A p \in SeqSet(_next_round_players) \cup SeqSet(current_winners)
                      \cup SeqSet(round_winners) : ~IsBye(p)
        /\ \A r \in DOMAIN rounds : \A k \in DOMAIN rounds[r] :
              ~IsBye(rounds[r][k][1]) /\ ~IsBye(rounds[r][k][2])
        /\ \A j \in DOMAIN results : \A p \in Parties(results[j]) : ~IsBye(p)

\* The least k with 2^k >= n
CeilLog2(n) == CHOOSE k \in 0..n : 2^k >= n /\ (k = 0 \/ 2^(k - 1) < n)

\* C8: a single elimination of n >= 2 players never holds more than
\* ceil(log2(n)) rounds and, once run, holds exactly that many; it ends with
\* one champion, the only entry that is not eliminated, and every recorded
\* match names one of its two players the winner.
BracketShape ==
    format = "single_elimination" =>
        /\ Len(rounds) <= CeilLog2(original_players)
        /\ ~completed => tournament_winner = 0
        /\ completed =>
              /\ Len(rounds) = CeilLog2(original_players)
              /\ tournament_winner \in SeqSet(bracket)
              /\ \A p \in SeqSet(bracket) :
                    entrants[p].eliminated <=> p # tournament_winner
              /\ \A j \in DOMAIN results :
                    /\ results[j].winner \in Parties(results[j])
                    /\ results[j].round \in 1..CeilLog2(original_players)

\* C8 witness: a tournament of a roster that needed byes has been run, and a
\* tie in its final was resolved
BracketShapeWitness ==
    /\ format = "single_elimination"
    /\ completed
    /\ Len(bracket) > original_players
    /\ Len(rounds) = 3
    /\ \E j \in DOMAIN results :
          results[j].round = Len(rounds) /\ results[j].is_draw

\* C9: in a double elimination, an entry whose eliminated flag is set has at
\* least two losses on its record, and a player of the tournament whose flag
\* is set has lost at least two of the recorded matches.
EliminatedAfterTwoLosses ==
    format = "double_elimination" =>
        \A p \in DOMAIN entrants :
            entrants[p].eliminated =>
                /\ entrants[p].losses >= 2
                /\ p \in RealPlayers => MatchesLost(p) >= 2

\* C9 witness: the tournament has been run, and a player who lost a match of
\* the winners bracket and then a match of the losers bracket is eliminated
EliminatedWitness ==
    /\ format = "double_elimination"
    /\ completed
    /\ \E p \in RealPlayers :
          /\ entrants[p].eliminated
          /\ \E j, k \in DOMAIN results :
                /\ j < k
                /\ results[j].bracket = "winners"
                /\ results[k].bracket = "losers"
                /\ p \in Parties(results[j]) /\ results[j].winner # p
                /\ p \in Parties(results[k]) /\ results[k].winner # p

\* The matches of the winners and the losers bracket that p lost
BracketLosses(p) ==
    Cardinality({k \in DOMAIN results :
                    /\ results[k].bracket # "final"
                    /\ p \in Parties(results[k])
                    /\ results[k].winner # p})

\* C10: a double elimination ends with a grand final between the one entry
\* left in the winners bracket, which has lost no match, and the one entry
\* left in the losers bracket; if the former wins it, no second match is
\* played and it is champion; if the latter wins it, one more match is
\* played between the same two and its winner is champion.
GrandFinalReset ==
    format = "double_elimination" =>
        /\ ~completed => tournament_winner = 0
        /\ match2 # NoMatch => match # NoMatch /\ match.match_winner = match.player2
        /\ completed =>
              /\ match # NoMatch
              /\ winners_next_round = <<match.player1>>
              /\ losers_bracket = <<match.player2>>
              /\ match.player1 # match.player2
              /\ BracketLosses(match.player1) = 0
              /\ ~entrants[match.player2].eliminated
              /\ IF match.match_winner = match.player1
                 THEN /\ match2 = NoMatch
                      /\ tournament_winner = match.player1
                 ELSE /\ match2 # NoMatch
                      /\ match2.player1 = match.player1
                      /\ match2.player2 = match.player2
                      /\ tournament_winner = match2.match_winner

\* C10 witness: the losers bracket's survivor won the grand final and the
\* winners bracket's survivor won the second match and is champion
GrandFinalResetWitness ==
    /\ format = "double_elimination"
    /\ completed
    /\ match.match_winner = match.player2
    /\ match2.match_winner = match2.player1
    /\ tournament_winner = match.player1

\* C11: a round robin of n players schedules n*(n-1)/2 matches, one for every
\* unordered pair of distinct players; the matches are played one by one in
\* the order of the schedule, and the finished tournament has played them
\* all.
RoundRobinSchedule ==
    format = "round_robin" =>
        /\ 2 * Len(round_robin_matches) = original_players * (original_players - 1)
        /\ \A p, q \in RealPlayers :
              p < q => Cardinality({k \in DOMAIN round_robin_matches :
                          SeqSet(round_robin_matches[k]) = {p, q}}) = 1
        /\ Len(results) = match_index
        /\ Len(results) <= Len(round_robin_matches)
        /\ \A k \in DOMAIN results :
              <<results[k].player1, results[k].player2>> = round_robin_matches[k]
        /\ completed => Len(results) = Len(round_robin_matches)

\* C11 witness: a round robin of three players has played its three matches
RoundRobinScheduleWitness ==
    /\ format = "round_robin"
    /\ completed
    /\ original_players = 3
    /\ Len(results) = 3

\* The matches played so far between p and q
Meetings(p, q) ==
    Cardinality({k \in DOMAIN results : Parties(results[k]) = {p, q}})

\* The pairings of the running round that have not been played yet
Unplayed == {k \in DOMAIN pairings : k > match_index}

\* C12: in a Swiss tournament no two players are paired with each other more
\* than once: no pair has played twice, a pairing waiting to be played is of
\* two different players who have not played each other, and no player is in
\* two pairings of a round.
SwissNoRematch ==
    format = "swiss" =>
        /\ \A p, q \in RealPlayers : Meetings(p, q) <= 1
        /\ \A k \in DOMAIN pairings :
              /\ pairings[k][1] # pairings[k][2]
              /\ k \in Unplayed => Meetings(pairings[k][1], pairings[k][2]) = 0
              /\ \A j \in DOMAIN pairings :
                    j # k => SeqSet(pairings[j]) \cap SeqSet(pairings[k]) = {}
        /\ \A r \in DOMAIN swiss_rounds : \A k \in DOMAIN swiss_rounds[r] :
              \A r2 \in DOMAIN swiss_rounds : \A k2 \in DOMAIN swiss_rounds[r2] :
                 SeqSet(swiss_rounds[r][k]) = SeqSet(swiss_rounds[r2][k2])
                    => r = r2 /\ k = k2

\* C12 witness: after three rounds among three players every pair has met
\* once, so that in a later round a player passed over one it had faced
SwissNoRematchWitness ==
    /\ format = "swiss"
    /\ completed
    /\ original_players = 3
    /\ Len(swiss_rounds) = 3
    /\ \A p, q \in RealPlayers : p # q => Meetings(p, q) = 1

\* ------------------------------------------------------------- match claims

\* C13 (the claim as stated): after run_match of a match of N games the two
\* win counts sum to exactly N.
MatchWinTally ==
    mpc = "returned" => win_counts[1] + win_counts[2] = num_games

\* C14: after run_match the match winner is one of the two bots; it is the
\* bot with strictly more game wins when the counts differ; and the draw
\* marker (draws = 1, is_draw) is set exactly when the counts are equal.
MatchWinnerRule ==
    mpc = "returned" =>
        /\ match_result.match_winner \in {match_result.player1, match_result.player2}
        /\ match_result.player1 = 1 /\ match_result.player2 = 2
        /\ win_counts[1] > win_counts[2] => match_result.match_winner = 1
        /\ win_counts[2] > win_counts[1] => match_result.match_winner = 2
        /\ match_result.draws \in {0, 1}
        /\ match_result.draws = 1 <=> win_counts[1] = win_counts[2]
        /\ match_result.is_draw <=> win_counts[1] = win_counts[2]

\* C14 witness: a match ended with equal counts, the second bot was chosen
\* the winner and the match is marked a draw
MatchWinnerRuleWitness ==
    /\ mpc = "returned"
    /\ win_counts[1] = win_counts[2]
    /\ match_result.match_winner = 2
    /\ match_result.draws = 1

\* C15 (the claim as stated): when a bot raises an unexpected error in a
\* game, the simulation goes on with the remaining games, and the game is
\* counted as a win of the other bot.
FaultyAgentForfeits ==
    [][(game_num' = game_num + 1 /\ last_game'.raised_by # 0) =>
          /\ mpc' = "simulating"
          /\ num_games' = num_games
          /\ win_counts'[3 - last_game'.raised_by]
                = win_counts[3 - last_game'.raised_by] + 1
          /\ win_counts'[last_game'.raised_by] = win_counts[last_game'.raised_by]]_vars

\* The tallies of a TournamentPlayer
Tally(e, p) == <<e[p].wins, e[p].losses, e[p].draws, e[p].points>>

\* C28: in every format and every state, each TournamentPlayer's points are
\* 3 times its wins plus its draws; a step that accounts for a match gives
\* one player one win and 3 points, another player one loss and no point,
\* and changes no other tally.
ScoringConvention ==
    /\ [](\A p \in DOMAIN entrants :
             entrants[p].points = 3 * entrants[p].wins + entrants[p].draws)
    /\ [][(\E p \in DOMAIN entrants : Tally(entrants', p) # Tally(entrants, p)) =>
             \E winner_t \in DOMAIN entrants :
                \E loser_t \in DOMAIN entrants \ {winner_t} :
                   /\ Tally(entrants', winner_t) =
                         <<entrants[winner_t].wins + 1, entrants[winner_t].losses,
                           entrants[winner_t].draws, entrants[winner_t].points + 3>>
                   /\ Tally(entrants', loser_t) =
                         <<entrants[loser_t].wins, entrants[loser_t].losses + 1,
                           entrants[loser_t].draws, entrants[loser_t].points>>
                   /\ \A p \in DOMAIN entrants \ {winner_t, loser_t} :
                         Tally(entrants', p) = Tally(entrants, p)]_vars

\* C28 witness: a tournament is over in which a player has won two matches
\* and lost one
ScoringConventionWitness ==
    /\ completed
    /\ \E p \in DOMAIN entrants :
          /\ entrants[p].wins = 2
          /\ entrants[p].losses = 1
          /\ entrants[p].points = 6

\* Two recorded matches of one round; in a double elimination, of one round
\* of one bracket
SameRound(r1, r2) ==
    /\ r1.round = r2.round
    /\ format = "double_elimination" => r1.bracket = r2.bracket

\* C29 (the claim as stated): no player takes part in two recorded matches
\* of the same round.
OneMatchPerRound ==
    \A i \in DOMAIN results : \A j \in DOMAIN results :
       (i < j /\ SameRound(results[i], results[j])) =>
          {results[i].player1, results[i].player2}
             \cap {results[j].player1, results[j].player2} = {}

\* C30 (the claim as stated): once a round robin or a Swiss tournament has
\* completed, the champion is the first entry of get_standings(), and in a
\* round robin no player has more points than the champion.
ChampionTopsRanking ==
    completed =>
       /\ format = "round_robin" =>
             /\ tournament_winner = get_standings(entrants, original_players)[1]
             /\ \A p \in 1..original_players :
                   entrants[tournament_winner].points >= entrants[p].points
       /\ format = "swiss" =>
             tournament_winner =
                get_standings_swiss(entrants, opponents_faced,
                                    1..original_players)[1]

\* The players the recorded matches pair with p
PairedAgainst(p) ==
    {q \in 1..original_players :
        \E k \in DOMAIN results :
           {results[k].player1, results[k].player2} = {p, q} /\ p # q}

RECURSIVE ScoreSum(_)
ScoreSum(S) ==
    IF S = {} THEN 0
    ELSE LET q == CHOOSE x \in S : TRUE
         IN  2 * entrants[q].wins + entrants[q].draws + ScoreSum(S \ {q})

\* C31: when a Swiss tournament has completed, every player's Buchholz score
\* is the sum of the final match scores (wins + draws / 2, here doubled) of
\* exactly the players it was paired against.
BuchholzScore ==
    (completed /\ format = "swiss") =>
       \A p \in 1..original_players :
          buchholz_score(entrants, opponents_faced, p) = ScoreSum(PairedAgainst(p))

\* C31 witness: a Swiss tournament has completed in which a player with a
\* positive Buchholz score never met a player that has won matches
BuchholzScoreWitness ==
    /\ completed
    /\ format = "swiss"
    /\ \E p \in 1..original_players : \E q \in 1..original_players \ {p} :
          /\ q \notin PairedAgainst(p)
          /\ entrants[q].wins > 0
          /\ buchholz_score(entrants, opponents_faced, p) > 0

\* The while loop of _run_double_elimination has been left
LoopLeft == tpc \in {"final", "final2"} \/ (tpc = "done" /\ completed)

\* C32: a double elimination tournament of 2 or more players always
\* completes; its loop ends with exactly one player in the winners bracket and
\* one in the losers bracket, the grand final is played, and the champion
\* returned is not None.
DoubleEliminationCompletion ==
    /\ <>completed
    /\ [](LoopLeft =>
            /\ Len(winners_next_round) = 1
            /\ Len(losers_bracket) = 1)
    /\ [](completed =>
            /\ tournament_winner # 0
            /\ results # <<>>
            /\ results[Len(results)].bracket = "final"
            /\ match # NoMatch)

\* C32 witness: a tournament of 3 players, whose bracket holds a bye, has
\* completed after both matches of the grand final
DoubleEliminationCompletionWitness ==
    /\ completed
    /\ format = "double_elimination"
    /\ original_players = 3
    /\ match2 # NoMatch
    /\ tournament_winner # 0

\* C33 (the claim as stated): the champion of a single or double elimination
\* tournament is one of the players the tournament was created with, never a
\* bye entry.
ChampionIsRegistered ==
    (completed /\ format \in {"single_elimination", "double_elimination"}) =>
        /\ ~IsBye(tournament_winner)
        /\ tournament_winner \in 1..original_players

\* The entries _run_double_elimination still holds in one of its lists after
\* round 1: the two brackets and the lists a round in progress fills
Contenders ==
    SeqSet(winners_next_round) \cup SeqSet(losers_bracket)
       \cup SeqSet(new_winners) \cup SeqSet(new_losers)
       \cup SeqSet(losers_next_round)

\* C34 (the claim as stated): in double elimination a player leaves
\* contention (is in neither bracket and is no grand finalist) only after
\* losing two matches; a player of the losers bracket is never left without a
\* further match, also when the losers bracket holds an odd number of players.
NoEarlyDrop ==
    (format = "double_elimination" /\ tpc \notin {"created", "winners_first"}) =>
        \A p \in 1..original_players :
            p \in Contenders \/ entrants[p].losses >= 2

\* C37 (the claim as stated): in a Swiss tournament with an even number n of
\* players, the pairing of every round r <= n - 1 pairs every player.
CompleteSwissPairing ==
    (/\ format = "swiss"
     /\ original_players % 2 = 0
     /\ tpc = "swiss_matches"
     /\ round_num <= original_players - 1) =>
        /\ Len(pairings) = original_players \div 2
        /\ \A p \in 1..original_players :
              \E k \in DOMAIN pairings : p \in {pairings[k][1], pairings[k][2]}

\* Whether the entry p got or gave a walkover: it stands in a pair of the
\* bracket that holds a bye, which round 1 settles without a match
Walkover(p) ==
    /\ format \in {"single_elimination", "double_elimination"}
    /\ \E k \in 1..(Len(bracket) \div 2) :
          /\ p \in {bracket[2 * k - 1], bracket[2 * k]}
          /\ IsBye(bracket[2 * k - 1]) \/ IsBye(bracket[2 * k])

\* The matches run with the entry p: each is one win, loss or draw of its tally
MatchesPlayed(p) ==
    entrants[p].wins + entrants[p].losses + entrants[p].draws
       - (IF Walkover(p) THEN 1 ELSE 0)

\* get_match_history(p): the records of results that name p
get_match_history(p) == {k \in DOMAIN results : p \in Parties(results[k])}

\* C38 (the claim as stated): when a tournament of any format has completed,
\* every match that was run, a second grand final match included, is recorded
\* exactly once: each player's match history holds as many records as the
\* player played matches, and results holds as many records as matches were
\* played.
MatchHistoryComplete ==
    completed =>
        /\ \A p \in DOMAIN entrants :
              Cardinality(get_match_history(p)) = MatchesPlayed(p)
        /\ 2 * Len(results) =
              SetSum([p \in DOMAIN entrants |-> MatchesPlayed(p)], DOMAIN entrants)

RECURSIVE MatchesIn(_)
MatchesIn(rs) == IF rs = <<>> THEN 0 ELSE Len(Head(rs)) + MatchesIn(Tail(rs))

\* get_tournament_stats: the counts it reports once the tournament has
\* completed, all taken from self.rounds
get_tournament_stats ==
    [total_rounds |-> Len(rounds),
     total_matches |-> MatchesIn(rounds),
     total_games |-> MatchesIn(rounds) * games_per_match]

\* The matches run in the tournament
TotalPlayed ==
    SetSum([p \in DOMAIN entrants |-> MatchesPlayed(p)], DOMAIN entrants) \div 2

\* The rounds in which a match was run
RoundsPlayed == {results[k].round : k \in DOMAIN results}

\* C39 (the claim as stated): after a tournament of any format has completed,
\* get_tournament_stats reports total_matches equal to the number of matches
\* played, total_games equal to that number times games_per_match, and
\* total_rounds equal to the number of rounds played.
StatisticsMatchPlay ==
    completed =>
        /\ get_tournament_stats.total_matches = TotalPlayed
        /\ get_tournament_stats.total_games = TotalPlayed * games_per_match
        /\ get_tournament_stats.total_rounds = Cardinality(RoundsPlayed)

\* The two entries of the grand final
GrandFinalists == {winners_next_round[1], losers_bracket[1]}

\* C40: when a double elimination tournament has completed, the champion has
\* lost fewer than two matches, and every other grand finalist has lost at
\* least one.
ChampionLosses ==
    (completed /\ format = "double_elimination") =>
        /\ tournament_winner \in GrandFinalists
        /\ entrants[tournament_winner].losses < 2
        /\ MatchesLost(tournament_winner) < 2
        /\ \A q \in GrandFinalists \ {tournament_winner} :
              entrants[q].losses >= 1

\* C40 witness: the survivor of the losers bracket, with its one loss, has won
\* both grand final matches of a tournament of 4 players
ChampionLossesWitness ==
    /\ completed
    /\ format = "double_elimination"
    /\ original_players = 4
    /\ match2 # NoMatch
    /\ tournament_winner = losers_bracket[1]
    /\ entrants[tournament_winner].losses = 1
    /\ entrants[winners_next_round[1]].losses = 2

====
